---- MODULE Spec2Model ----
(***************************************************************************)
(* Dumpling AI MCP server: the tool registry, the dispatcher and the tool  *)
(* handlers of src/src/index.ts and of its second variant                  *)
(* src/unnamed/part_000, as a state machine over tool invocations.         *)
(***************************************************************************)
EXTENDS Integers, Sequences, FiniteSets, TLC

(***************************************************************************)
(* JavaScript / JSON values.  A value is a tagged record; an object is an  *)
(* ordered sequence of <<key, value>> pairs (insertion order, which is the *)
(* order JSON.stringify writes).                                           *)
(***************************************************************************)
Undefined == [t |-> "undefined"]
Null == [t |-> "null"]
Str(s) == [t |-> "string", s |-> s]
Num(n) == [t |-> "number", n |-> n]
Bool(b) == [t |-> "boolean", b |-> b]
Arr(a) == [t |-> "array", a |-> a]
Obj(o) == [t |-> "object", o |-> o]

\* JavaScript truthiness, as used by `!x` and `x && y`.
Truthy(v) ==
  CASE v.t = "undefined" -> FALSE
    [] v.t = "null" -> FALSE
    [] v.t = "string" -> v.s /= ""
    [] v.t = "number" -> v.n /= 0
    [] v.t = "boolean" -> v.b
    [] OTHER -> TRUE

\* Whether object o has an own property k.
Has(v, k) == v.t = "object" /\ \E j \in 1..Len(v.o) : v.o[j][1] = k

\* Property read v.k on a value that is not undefined or null: the property's
\* value, or undefined when there is none.
Get(v, k) ==
  IF Has(v, k)
  THEN v.o[CHOOSE j \in 1..Len(v.o) : v.o[j][1] = k][2]
  ELSE Undefined

\* Whether the property read v.k throws a TypeError.
GetThrows(v) == v.t \in {"undefined", "null"}

\* The keys of an object, in order.
Keys(v) == [j \in 1..Len(v.o) |-> v.o[j][1]]

\* Join a sequence of strings with a separator.
RECURSIVE Join(_, _)
Join(ss, sep) ==
  IF Len(ss) = 0 THEN ""
  ELSE IF Len(ss) = 1 THEN ss[1]
  ELSE ss[1] \o sep \o Join(Tail(ss), sep)

\* The members of an object literal that JSON.stringify writes: those whose
\* value is not undefined.
RECURSIVE SelectPairs(_)
SelectPairs(ps) ==
  IF Len(ps) = 0 THEN <<>>
  ELSE IF ps[1][2].t = "undefined" THEN SelectPairs(Tail(ps))
  ELSE <<ps[1]>> \o SelectPairs(Tail(ps))

\* A JSON string literal (the strings of this model need no escapes).
Quote(s) == "\"" \o s \o "\""

\* String(v), the conversion a template literal `${v}` applies.
RECURSIVE ToJsString(_)
ToJsString(v) ==
  CASE v.t = "undefined" -> "undefined"
    [] v.t = "null" -> "null"
    [] v.t = "string" -> v.s
    [] v.t = "number" -> ToString(v.n)
    [] v.t = "boolean" -> (IF v.b THEN "true" ELSE "false")
    [] v.t = "array" ->
         Join([j \in 1..Len(v.a) |->
                 IF v.a[j].t \in {"undefined", "null"} THEN ""
                 ELSE ToJsString(v.a[j])], ",")
    [] OTHER -> "[object Object]"

\* JSON.stringify(v, null, gap) at the given current indentation, for a value
\* that is not undefined: properties whose value is undefined are left out,
\* undefined array elements are written as null.
RECURSIVE Stringify(_, _, _)
Stringify(v, gap, ind) ==
  LET inner == ind \o gap
      open == IF gap = "" THEN "" ELSE "\n" \o inner
      sep == IF gap = "" THEN "," ELSE ",\n" \o inner
      close == IF gap = "" THEN "" ELSE "\n" \o ind
      colon == IF gap = "" THEN ":" ELSE ": "
  IN CASE v.t = "null" -> "null"
       [] v.t = "undefined" -> "null"
       [] v.t = "string" -> Quote(v.s)
       [] v.t = "number" -> ToString(v.n)
       [] v.t = "boolean" -> (IF v.b THEN "true" ELSE "false")
       [] v.t = "array" ->
            IF Len(v.a) = 0 THEN "[]"
            ELSE "[" \o open
                 \o Join([j \in 1..Len(v.a) |-> Stringify(v.a[j], gap, inner)], sep)
                 \o close \o "]"
       [] OTHER ->
            LET ps == SelectPairs(v.o)
            IN IF Len(ps) = 0 THEN "{}"
               ELSE "{" \o open
                    \o Join([j \in 1..Len(ps) |->
                               Quote(ps[j][1]) \o colon
                               \o Stringify(ps[j][2], gap, inner)], sep)
                    \o close \o "}"

\* JSON.stringify(v): the compact form, used for request bodies.
JSONstringify(v) == Stringify(v, "", "")

\* JSON.stringify(v, null, 2): the formatted form, used for payloads.
JSONstringify2(v) == Stringify(v, "  ", "")

(***************************************************************************)
(* The registry: server.tool(name, schema, handler) for each tool.  The    *)
(* first seven tools are the same in both files; "index" is                *)
(* src/src/index.ts and "part" is src/unnamed/part_000.                    *)
(***************************************************************************)
Range(f) == {f[j] : j \in DOMAIN f}

Variants == {"index", "part"}

NWS_API_BASE == "https://app.dumplingai.com"

CommonTools ==
  {"get-youtube-transcript", "search", "get-autocomplete", "search-maps",
   "search-places", "search-news", "get-google-reviews"}

ToolsIndex ==
  CommonTools \cup
  {"scrape", "crawl", "extract-document", "extract-image", "doc-to-text",
   "screenshot", "generate-ai-image", "extract-video"}

ToolsPart ==
  CommonTools \cup
  {"scrape", "doc-to-text", "extract-document", "crawl",
   "add-to-knowledge-base", "search-knowledge-base"}

\* The names registered by the file of variant v.
Tools(v) == IF v = "index" THEN ToolsIndex ELSE ToolsPart

\* The server.tool calls of each file, in the order the module runs them.
RegistrationsIndex ==
  <<"get-youtube-transcript", "search", "get-autocomplete", "search-maps",
    "search-places", "search-news", "get-google-reviews", "scrape", "crawl",
    "extract-document", "extract-image", "doc-to-text", "screenshot",
    "generate-ai-image", "extract-video">>

RegistrationsPart ==
  <<"get-youtube-transcript", "search", "get-autocomplete", "search-maps",
    "search-places", "search-news", "get-google-reviews", "scrape", "doc-to-text",
    "extract-document", "crawl", "add-to-knowledge-base", "search-knowledge-base">>

Registrations(v) == IF v = "index" THEN RegistrationsIndex ELSE RegistrationsPart

\* One declared parameter: z.<type>() with or without .optional().
Req(name, type) == [name |-> name, type |-> type, req |-> TRUE]
Opt(name, type) == [name |-> name, type |-> type, req |-> FALSE]

DateRanges == {"anyTime", "pastHour", "pastDay", "pastWeek", "pastMonth", "pastYear"}
Formats3 == {"markdown", "html", "screenshot"}
Formats2 == {"markdown", "html"}
SortOrders == {"relevance", "newest"}

\* The values of an enumerated parameter type.
EnumValues(type) ==
  CASE type = "dateRange" -> DateRanges
    [] type = "format3" -> Formats3
    [] type = "format2" -> Formats2
    [] type = "sortBy" -> SortOrders
    [] OTHER -> {}

\* The parameter schemas of src/src/index.ts, in declaration order.
SchemaIndex(tool) ==
  CASE tool = "get-youtube-transcript" ->
         <<Req("videoUrl", "url"), Opt("includeTimestamps", "boolean"),
           Opt("timestampsToCombine", "number"), Opt("preferredLanguage", "string")>>
    [] tool = "search" ->
         <<Req("query", "string"), Opt("country", "string"), Opt("location", "string"),
           Opt("language", "string"), Opt("dateRange", "dateRange"), Opt("page", "number"),
           Opt("scrapeResults", "boolean"), Opt("numResultsToScrape", "number"),
           Opt("scrapeOptions", "scrapeOptions")>>
    [] tool = "get-autocomplete" ->
         <<Req("query", "string"), Opt("location", "string"), Opt("country", "string"),
           Opt("language", "string")>>
    [] tool = "search-maps" ->
         <<Req("query", "string"), Opt("gpsPositionZoom", "string"), Opt("placeId", "string"),
           Opt("cid", "string"), Opt("language", "string"), Opt("page", "number")>>
    [] tool = "search-places" ->
         <<Req("query", "string"), Opt("country", "string"), Opt("location", "string"),
           Opt("language", "string"), Opt("page", "number")>>
    [] tool = "search-news" ->
         <<Req("query", "string"), Opt("country", "string"), Opt("location", "string"),
           Opt("language", "string"), Opt("dateRange", "dateRange"), Opt("page", "number")>>
    [] tool = "get-google-reviews" ->
         <<Opt("placeId", "string"), Opt("businessName", "string"), Opt("location", "string"),
           Opt("language", "string"), Opt("limit", "number"), Opt("sortBy", "sortBy")>>
    [] tool = "scrape" ->
         <<Req("url", "url"), Opt("format", "format3"), Opt("cleaned", "boolean"),
           Opt("renderJs", "boolean")>>
    [] tool = "crawl" ->
         <<Req("url", "url"), Opt("limit", "number"), Opt("depth", "number"),
           Opt("format", "format2"), Opt("cleaned", "boolean"), Opt("renderJs", "boolean")>>
    [] tool = "extract-document" ->
         <<Opt("url", "url"), Opt("base64", "string"), Req("prompt", "string"),
           Opt("jsonMode", "boolean"), Opt("model", "string")>>
    [] tool = "extract-image" ->
         <<Req("images", "images"), Req("prompt", "string"), Opt("jsonMode", "boolean"),
           Opt("model", "string")>>
    [] tool = "doc-to-text" ->
         <<Opt("url", "url"), Opt("base64", "string"), Opt("pages", "string")>>
    [] tool = "screenshot" ->
         <<Req("url", "url"), Opt("viewportWidth", "number"), Opt("viewportHeight", "number"),
           Opt("fullPage", "boolean"), Opt("blockCookieBanners", "boolean"),
           Opt("waitTime", "number"), Opt("autoScroll", "boolean"), Opt("renderJs", "boolean")>>
    [] tool = "generate-ai-image" ->
         <<Req("prompt", "string"), Opt("model", "string"), Opt("size", "string"),
           Opt("style", "string"), Opt("negativePrompt", "string"), Opt("seed", "number"),
           Opt("steps", "number"), Opt("cfgScale", "number"), Opt("sampler", "string")>>
    [] tool = "extract-video" ->
         <<Opt("url", "url"), Opt("base64", "string"), Req("prompt", "string"),
           Opt("jsonMode", "boolean"), Opt("model", "string")>>
    [] OTHER -> <<>>

\* The parameter schemas of src/unnamed/part_000 where they differ from, or
\* are missing in, src/src/index.ts.
SchemaPart(tool) ==
  CASE tool = "doc-to-text" ->
         <<Opt("url", "url"), Opt("file", "string"), Opt("pages", "string")>>
    [] tool = "extract-document" ->
         <<Req("prompt", "string"), Req("files", "files"), Opt("jsonMode", "boolean")>>
    [] tool = "crawl" ->
         <<Req("url", "url"), Opt("limit", "number"), Opt("depth", "number"),
           Opt("format", "format3"), Opt("cleaned", "boolean"), Opt("renderJs", "boolean")>>
    [] tool = "add-to-knowledge-base" ->
         <<Req("knowledgeBaseId", "string"), Req("content", "string"), Opt("title", "string"),
           Opt("url", "url"), Opt("metadata", "record")>>
    [] tool = "search-knowledge-base" ->
         <<Req("knowledgeBaseId", "string"), Req("query", "string"),
           Opt("resultCount", "number")>>
    [] OTHER -> SchemaIndex(tool)

Schema(v, tool) == IF v = "index" THEN SchemaIndex(tool) ELSE SchemaPart(tool)

(***************************************************************************)
(* Argument validation: the dispatcher parses the call's arguments with    *)
(* z.object(schema) before it calls the handler.                           *)
(***************************************************************************)
\* z.string() without .url(): any string that is not empty.
IsUrlAnyString(s) == Len(s) > 0

\* z.string().url(): the string parses as an absolute URL.  The URLs of this
\* model are told apart by their scheme.
IsUrl(s) ==
  \E scheme \in {"https://", "http://"} :
    Len(s) > Len(scheme) /\ SubSeq(s, 1, Len(scheme)) = scheme

\* The schema of the objects nested in a parameter of the given type.
NestedSchema(type) ==
  CASE type = "scrapeOptions" -> <<Opt("format", "format3"), Opt("cleaned", "boolean")>>
    [] type = "images" -> <<Opt("url", "url"), Opt("base64", "string")>>
    [] type = "files" ->
         <<Opt("url", "url"), Opt("content", "string"), Opt("filename", "string")>>
    [] OTHER -> <<>>

\* Whether v is a value of a scalar parameter type.
ScalarOk(type, v) ==
  CASE type = "string" -> v.t = "string"
    [] type = "url" -> v.t = "string" /\ IsUrl(v.s)
    [] type = "number" -> v.t = "number"
    [] type = "boolean" -> v.t = "boolean"
    [] type = "record" -> v.t = "object"
    [] OTHER -> v.t = "string" /\ v.s \in EnumValues(type)

\* Whether object v satisfies a schema of scalar parameters.
FlatOk(schema, v) ==
  /\ v.t = "object"
  /\ \A j \in 1..Len(schema) :
       LET x == Get(v, schema[j].name)
       IN IF x.t = "undefined" THEN ~schema[j].req ELSE ScalarOk(schema[j].type, x)

\* Whether v is a value of a parameter type.
TypeOk(type, v) ==
  CASE type = "scrapeOptions" -> FlatOk(NestedSchema(type), v)
    [] type \in {"images", "files"} ->
         v.t = "array" /\ \A j \in 1..Len(v.a) : FlatOk(NestedSchema(type), v.a[j])
    [] OTHER -> ScalarOk(type, v)

\* Whether the arguments satisfy the tool's schema: every required parameter
\* is present and every present declared parameter has its type.
Validate(schema, rawArgs) ==
  /\ rawArgs.t = "object"
  /\ \A j \in 1..Len(schema) :
       LET x == Get(rawArgs, schema[j].name)
       IN IF x.t = "undefined" THEN ~schema[j].req ELSE TypeOk(schema[j].type, x)

\* The pairs <<name, v.name>> of the names that v has, in the order of names.
RECURSIVE PickPresent(_, _)
PickPresent(names, v) ==
  IF Len(names) = 0 THEN <<>>
  ELSE (IF Get(v, names[1]).t = "undefined" THEN <<>>
        ELSE << <<names[1], Get(v, names[1])>> >>)
       \o PickPresent(Tail(names), v)

\* The names a schema declares, in order.
Names(schema) == [j \in 1..Len(schema) |-> schema[j].name]

\* The value zod hands on for a valid parameter: undeclared keys of nested
\* objects are stripped.
ParsedValue(type, v) ==
  CASE type = "scrapeOptions" -> Obj(PickPresent(Names(NestedSchema(type)), v))
    [] type \in {"images", "files"} ->
         Arr([j \in 1..Len(v.a) |->
                Obj(PickPresent(Names(NestedSchema(type)), v.a[j]))])
    [] OTHER -> v

\* The arguments the handler receives: the declared parameters that are
\* present, undeclared keys stripped.
ParsedArgs(schema, rawArgs) ==
  LET ps == PickPresent(Names(schema), rawArgs)
      TypeOf(n) == schema[CHOOSE j \in 1..Len(schema) : schema[j].name = n].type
  IN Obj([j \in 1..Len(ps) |-> <<ps[j][1], ParsedValue(TypeOf(ps[j][1]), ps[j][2])>>])

(***************************************************************************)
(* The handlers.                                                           *)
(***************************************************************************)
NoError == ""

JsError(name, message) == [name |-> name, message |-> message]

\* The check with || for &&: it rejects the call unless both are given.
EitherRequiredBoth(args, a, b) ==
  IF ~Truthy(Get(args, a)) \/ ~Truthy(Get(args, b))
  THEN "Either " \o a \o " or " \o b \o " is required"
  ELSE NoError

\* if (!url && !base64) throw ...: the message thrown, or NoError.
EitherRequired(args, a, b) ==
  IF ~Truthy(Get(args, a)) /\ ~Truthy(Get(args, b))
  THEN "Either " \o a \o " or " \o b \o " is required"
  ELSE NoError

\* The checks with an extract-image loop that tests the first image only.
PreconditionIndexFirstImage(tool, args) ==
  CASE tool = "get-google-reviews" -> EitherRequired(args, "placeId", "businessName")
    [] tool \in {"extract-document", "doc-to-text", "extract-video"} ->
         EitherRequired(args, "url", "base64")
    [] tool = "extract-image" ->
         LET images == Get(args, "images")
         IN IF /\ Len(images.a) > 0
               /\ ~Truthy(Get(images.a[1], "url")) /\ ~Truthy(Get(images.a[1], "base64"))
            THEN "Each image must have either url or base64"
            ELSE NoError
    [] OTHER -> NoError

\* The cross-field check at the top of a handler of src/src/index.ts: the
\* message it throws, or NoError.
PreconditionIndex(tool, args) ==
  CASE tool = "get-google-reviews" -> EitherRequired(args, "placeId", "businessName")
    [] tool \in {"extract-document", "doc-to-text", "extract-video"} ->
         EitherRequired(args, "url", "base64")
    [] tool = "extract-image" ->
         LET images == Get(args, "images")
         IN IF \E j \in 1..Len(images.a) :
                 ~Truthy(Get(images.a[j], "url")) /\ ~Truthy(Get(images.a[j], "base64"))
            THEN "Each image must have either url or base64"
            ELSE NoError
    [] OTHER -> NoError

\* The cross-field check at the top of a handler of src/unnamed/part_000.
PreconditionPart(tool, args) ==
  CASE tool = "get-google-reviews" -> EitherRequired(args, "placeId", "businessName")
    [] tool = "doc-to-text" -> EitherRequired(args, "url", "file")
    [] OTHER -> NoError

Precondition(v, tool, args) ==
  IF v = "index" THEN PreconditionIndex(tool, args) ELSE PreconditionPart(tool, args)

\* The tools whose handler opens with a cross-field check.
HasPrecondition(v, tool) ==
  IF v = "index"
  THEN tool \in {"get-google-reviews", "extract-document", "extract-image", "doc-to-text",
                 "extract-video"}
  ELSE tool \in {"get-google-reviews", "doc-to-text"}

\* The check as `apiKey === undefined`: an empty string passes it.
HasApiKeyDefined(apiKey) == apiKey /= Undefined

\* The check as `apiKey !== ""`: an unset variable passes it.
HasApiKeyNotEmpty(apiKey) == apiKey /= Str("")

\* if (!apiKey) throw ...: whether the credential check passes.
HasApiKey(apiKey) == Truthy(apiKey)

MissingKeyMessage == "DUMPLING_API_KEY environment variable not set"

\* search-places posting to the path of the handler it was copied from.
EndpointCopied(tool) ==
  NWS_API_BASE \o "/api/v1/" \o (IF tool = "search-places" THEN "search-maps" ELSE tool)

\* The path of the endpoint a handler posts to.
Endpoint(tool) == NWS_API_BASE \o "/api/v1/" \o tool

\* The fields of a handler's request body literal, in order: every handler
\* lists exactly the parameters it destructures.
BodyFields(v, tool) == Names(Schema(v, tool))

\* A body literal written { field: field ?? null, ... }.
RequestWithNulls(v, tool, args, apiKey) ==
  [url |-> Endpoint(tool),
   method |-> "POST",
   contentType |-> "application/json",
   authorization |-> "Bearer " \o ToJsString(apiKey),
   body |-> JSONstringify(Obj([j \in 1..Len(BodyFields(v, tool)) |->
              <<BodyFields(v, tool)[j],
                IF Has(args, BodyFields(v, tool)[j])
                THEN Get(args, BodyFields(v, tool)[j]) ELSE Null>>]))]

\* The fetch call of a handler: the request it issues.
Request(v, tool, args, apiKey) ==
  [url |-> Endpoint(tool),
   method |-> "POST",
   contentType |-> "application/json",
   authorization |-> "Bearer " \o ToJsString(apiKey),
   body |-> JSONstringify(Obj([j \in 1..Len(BodyFields(v, tool)) |->
              <<BodyFields(v, tool)[j], Get(args, BodyFields(v, tool)[j])>>]))]

\* The text a handler of src/src/index.ts puts before the status in the error
\* it throws on a non-success response.
FailPrefixIndex(tool) ==
  CASE tool = "get-youtube-transcript" -> "Failed to fetch YouTube transcript"
    [] tool = "search" -> "Failed to perform search"
    [] tool = "get-autocomplete" -> "Failed to get autocomplete suggestions"
    [] tool = "search-maps" -> "Failed to perform maps search"
    [] tool = "search-places" -> "Failed to perform places search"
    [] tool = "search-news" -> "Failed to perform news search"
    [] tool = "get-google-reviews" -> "Failed to get Google reviews"
    [] tool = "scrape" -> "Failed to scrape URL"
    [] tool = "crawl" -> "Failed to crawl website"
    [] tool = "extract-document" -> "Failed to extract document data"
    [] tool = "extract-image" -> "Failed to extract image data"
    [] tool = "doc-to-text" -> "Failed to convert document to text"
    [] tool = "screenshot" -> "Failed to capture screenshot"
    [] tool = "generate-ai-image" -> "Failed to generate AI image"
    [] tool = "extract-video" -> "Failed to extract video data"
    [] OTHER -> ""

\* The same for src/unnamed/part_000.
FailPrefixPart(tool) ==
  CASE tool = "scrape" -> "Failed to scrape content"
    [] tool = "add-to-knowledge-base" -> "Failed to add content to knowledge base"
    [] tool = "search-knowledge-base" -> "Failed to search knowledge base"
    [] OTHER -> FailPrefixIndex(tool)

FailPrefix(v, tool) == IF v = "index" THEN FailPrefixIndex(tool) ELSE FailPrefixPart(tool)

\* response.ok
ResponseOk(status) == status >= 200 /\ status <= 299

\* The error without the body text.
UpstreamFailureStatusOnly(v, tool, status, errorText) ==
  JsError("Error", FailPrefix(v, tool) \o ": " \o ToString(status))

\* The error thrown on a non-success response, from the status and the body
\* read as text.
UpstreamFailure(v, tool, status, errorText) ==
  JsError("Error", FailPrefix(v, tool) \o ": " \o ToString(status) \o " " \o errorText)

\* The first argument of console.error in the catch block of a handler of
\* src/src/index.ts.
CatchLineIndex(tool) ==
  CASE tool = "get-youtube-transcript" -> "Error fetching YouTube transcript:"
    [] tool = "search" -> "Error performing search:"
    [] tool = "get-autocomplete" -> "Error getting autocomplete suggestions:"
    [] tool = "search-maps" -> "Error performing maps search:"
    [] tool = "search-places" -> "Error performing places search:"
    [] tool = "search-news" -> "Error performing news search:"
    [] tool = "get-google-reviews" -> "Error getting Google reviews:"
    [] tool = "scrape" -> "Error scraping URL:"
    [] tool = "crawl" -> "Error crawling website:"
    [] tool = "extract-document" -> "Error extracting document data:"
    [] tool = "extract-image" -> "Error extracting image data:"
    [] tool = "doc-to-text" -> "Error converting document to text:"
    [] tool = "screenshot" -> "Error capturing screenshot:"
    [] tool = "generate-ai-image" -> "Error generating AI image:"
    [] tool = "extract-video" -> "Error extracting video data:"
    [] OTHER -> ""

\* The same for src/unnamed/part_000.
CatchLinePart(tool) ==
  CASE tool = "scrape" -> "Error scraping content:"
    [] tool = "add-to-knowledge-base" -> "Error adding content to knowledge base:"
    [] tool = "search-knowledge-base" -> "Error searching knowledge base:"
    [] OTHER -> CatchLineIndex(tool)

CatchLine(v, tool) == IF v = "index" THEN CatchLineIndex(tool) ELSE CatchLinePart(tool)

(***************************************************************************)
(* What a handler makes of a parsed success body.  A handler either        *)
(* returns { content: [{ type: "text", text }] } or throws.                *)
(***************************************************************************)
NoJsError == JsError("", "")

NoResult == [kind |-> "none", content |-> <<>>, error |-> NoJsError]

Return(text) ==
  [kind |-> "return", content |-> <<[type |-> "text", text |-> text]>>, error |-> NoJsError]

Throw(err) == [kind |-> "throw", content |-> <<>>, error |-> err]

PropertyOfNullish == JsError("TypeError", "Cannot read properties of undefined")

NotAFunction == JsError("TypeError", "data.organic.map is not a function")

\* The template with ", " for the line break.
TranscriptTextOneLine(data) ==
  "Transcript: " \o ToJsString(Get(data, "transcript")) \o ", "
  \o "Language: " \o ToJsString(Get(data, "language"))

\* text: `Transcript: ${data.transcript}\nLanguage: ${data.language}`
TranscriptText(data) ==
  "Transcript: " \o ToJsString(Get(data, "transcript")) \o "\n"
  \o "Language: " \o ToJsString(Get(data, "language"))

\* ...(x && { key: y }): the properties the spread adds to an object literal.
SpreadIf(x, key, y) == IF Truthy(x) THEN << <<key, y>> >> ELSE <<>>

\* The arrow function returning the upstream item as it is.
OrganicItemWhole(result) == result

\* The arrow function the search handler maps over data.organic.
OrganicItem(result) ==
  Obj(<< <<"title", Get(result, "title")>>,
         <<"link", Get(result, "link")>>,
         <<"snippet", Get(result, "snippet")>>,
         <<"position", Get(result, "position")>> >>
      \o SpreadIf(Get(result, "scrapeOutput"), "content",
                  Get(Get(result, "scrapeOutput"), "content")))

\* formattedResults of the search handler, for data whose organic is an array
\* of values that are not null.
FormattedResults(data) ==
  Obj(<< <<"searchParameters", Get(data, "searchParameters")>>,
         <<"organicResults",
           Arr([j \in 1..Len(Get(data, "organic").a) |->
                  OrganicItem(Get(data, "organic").a[j])])>> >>
      \o SpreadIf(Get(data, "featuredSnippet"), "featuredSnippet",
                  Get(data, "featuredSnippet"))
      \o SpreadIf(Get(data, "relatedSearches"), "relatedSearches",
                  Get(data, "relatedSearches"))
      \o SpreadIf(Get(data, "peopleAlsoAsk"), "peopleAlsoAsk",
                  Get(data, "peopleAlsoAsk")))

\* The search handler from `const formattedResults` to its return.
SearchResult(data) ==
  LET organic == Get(data, "organic")
  IN IF organic.t \in {"undefined", "null"} THEN Throw(PropertyOfNullish)
     ELSE IF organic.t /= "array" THEN Throw(NotAFunction)
     ELSE IF \E j \in 1..Len(organic.a) : GetThrows(organic.a[j])
          THEN Throw(PropertyOfNullish)
     ELSE Return(Str(JSONstringify2(FormattedResults(data))))

\* The whole body in place of the object literal.
PickFieldsAll(data, fields) == data

\* The object literal { f1: data.f1, ... } of a handler.
PickFields(data, fields) ==
  Obj([j \in 1..Len(fields) |-> <<fields[j], Get(data, fields[j])>>])

\* The fields a handler of src/src/index.ts copies from the body into its
\* payload; <<>> for the handlers that do not build such a literal.
PayloadFieldsIndex(tool) ==
  CASE tool = "get-autocomplete" -> <<"searchParameters", "suggestions">>
    [] tool = "search-maps" -> <<"searchParameters", "ll", "places">>
    [] tool = "search-places" -> <<"searchParameters", "places">>
    [] tool = "search-news" -> <<"searchParameters", "news">>
    [] tool = "scrape" -> <<"title", "url", "content", "metadata">>
    [] tool \in {"extract-document", "extract-image", "extract-video"} ->
         <<"output", "creditUsage">>
    [] tool = "doc-to-text" -> <<"text", "pages", "creditUsage">>
    [] tool = "screenshot" -> <<"screenshotUrl", "base64", "creditUsage">>
    [] tool = "generate-ai-image" -> <<"imageUrl", "base64", "creditUsage">>
    [] OTHER -> <<>>

\* The same for src/unnamed/part_000.
PayloadFieldsPart(tool) ==
  CASE tool = "scrape" -> <<"title", "content", "metadata", "url", "format", "cleaned">>
    [] tool = "crawl" -> <<"pages", "creditUsage">>
    [] tool = "extract-document" -> <<"output", "creditUsage">>
    [] tool = "add-to-knowledge-base" -> <<"resource", "creditUsage">>
    [] tool = "search-knowledge-base" -> <<"results">>
    [] tool = "doc-to-text" -> <<>>
    [] OTHER -> PayloadFieldsIndex(tool)

PayloadFields(v, tool) ==
  IF v = "index" THEN PayloadFieldsIndex(tool) ELSE PayloadFieldsPart(tool)

\* The tools whose handler returns JSON.stringify(data, null, 2), the whole body.
PassThroughTools(v) ==
  IF v = "index" THEN {"get-google-reviews", "crawl"} ELSE {"get-google-reviews"}

\* The tools whose handler returns text: data.text.
RawTextTools(v) == IF v = "index" THEN {} ELSE {"doc-to-text"}

\* A handler from `const data = await response.json()` (data given) to its
\* return or throw.
ProjectOf(v, tool, data) ==
  CASE tool \in PassThroughTools(v) -> Return(Str(JSONstringify2(data)))
    [] GetThrows(data) -> Throw(PropertyOfNullish)
    [] tool = "get-youtube-transcript" -> Return(Str(TranscriptText(data)))
    [] tool = "search" -> SearchResult(data)
    [] tool \in RawTextTools(v) -> Return(Get(data, "text"))
    [] OTHER -> Return(Str(JSONstringify2(PickFields(data, PayloadFields(v, tool)))))

(***************************************************************************)
(* The inputs of the model: the credential values, the arguments the host  *)
(* sends and the responses of the upstream API.                            *)
(***************************************************************************)
MaxImages == 2
MaxOrganic == 2

\* The host of Spec awaits the outcome of a call before it makes the next
\* one: it has one call in flight at a time.
HostSlots == {1}

\* process.env.DUMPLING_API_KEY: unset, empty, or a key.
EnvValues == {Undefined, Str(""), Str("key-A"), Str("key-B")}

\* The sequences over S of length at most n.
SeqsUpTo(S, n) == UNION {[1..k -> S] : k \in 0..n}

AUrl == Str("https://example.com/a")
Extra == <<"traceId", Str("t-1")>>

\* Arguments for a tool with one required parameter: the parameter alone, with
\* some optional ones and an undeclared key, mistyped, and missing.
OneRequired(name, value, optionals, bad) ==
  {Obj(<< <<name, value>> >>),
   Obj(<< <<name, value>> >> \o optionals \o <<Extra>>),
   Obj(<< <<name, bad>> >>),
   Obj(optionals)}

\* Arguments for a tool that wants a url or inline content under key b.
UrlOrInline(b, rest) ==
  {Obj(u \o c \o rest) :
     u \in {<<>>, << <<"url", AUrl>> >>},
     c \in {<<>>, << <<b, Str("")>> >>, << <<b, Str("QUJD")>> >>}}
  \cup {Obj(<< <<"url", Str("")>> >> \o rest)}

ImageKinds ==
  {Obj(<<>>), Obj(<< <<"url", AUrl>> >>), Obj(<< <<"base64", Str("QUJD")>> >>)}

FileLists ==
  {<<>>, <<Obj(<<>>)>>, <<Obj(<< <<"url", AUrl>> >>)>>,
   <<Obj(<< <<"content", Str("QUJD")>>, <<"filename", Str("a.pdf")>> >>)>>,
   <<Obj(<< <<"content", Str("")>> >>)>>}

Prompt == <<"prompt", Str("total due")>>

\* The argument objects the host sends to a tool.
ArgChoices(v, tool) ==
  CASE tool = "get-youtube-transcript" ->
         OneRequired("videoUrl", Str("https://youtu.be/x"),
                     << <<"includeTimestamps", Bool(TRUE)>>,
                        <<"preferredLanguage", Str("en")>> >>, Str("youtu.be/x"))
    [] tool = "search" ->
         OneRequired("query", Str("rust ownership"),
                     << <<"dateRange", Str("pastDay")>>, <<"page", Num(1)>>,
                        <<"scrapeOptions",
                          Obj(<< <<"format", Str("markdown")>>, Extra >>)>> >>, Num(7))
         \cup {Obj(<< <<"query", Str("q")>>, <<"dateRange", Str("lastYear")>> >>)}
    [] tool \in {"get-autocomplete", "search-places"} ->
         OneRequired("query", Str("pizza"), << <<"country", Str("us")>> >>, Null)
    [] tool = "search-maps" ->
         OneRequired("query", Str("pizza"),
                     << <<"placeId", Str("p1")>>, <<"page", Num(2)>> >>, Bool(TRUE))
    [] tool = "search-news" ->
         OneRequired("query", Str("pizza"),
                     << <<"dateRange", Str("pastWeek")>> >>, Num(0))
    [] tool = "get-google-reviews" ->
         {Obj(a \o b \o c) :
            a \in {<<>>, << <<"placeId", Str("")>> >>, << <<"placeId", Str("p1")>> >>},
            b \in {<<>>, << <<"businessName", Str("")>> >>,
                   << <<"businessName", Str("Cafe")>> >>},
            c \in {<<>>, << <<"location", Str("Oslo")>>, <<"limit", Num(5)>>,
                            <<"sortBy", Str("newest")>> >>}}
    [] tool \in {"scrape", "crawl"} ->
         OneRequired("url", AUrl,
                     << <<"format", Str("html")>>, <<"cleaned", Bool(FALSE)>> >>,
                     Str("example.com"))
    [] tool = "screenshot" ->
         OneRequired("url", AUrl,
                     << <<"viewportWidth", Num(800)>>, <<"fullPage", Bool(TRUE)>> >>,
                     Str(""))
    [] tool = "generate-ai-image" ->
         OneRequired("prompt", Str("a cat"),
                     << <<"seed", Num(0)>>, <<"style", Str("")>> >>, Num(1))
    [] tool = "extract-image" ->
         {Obj(<< <<"images", Arr(im)>>, Prompt >>) : im \in SeqsUpTo(ImageKinds, MaxImages)}
         \cup {Obj(<<Prompt>>)}
    [] tool = "extract-video" -> UrlOrInline("base64", <<Prompt>>)
    [] tool = "extract-document" ->
         IF v = "index" THEN UrlOrInline("base64", <<Prompt>>)
         ELSE {Obj(<< Prompt, <<"files", Arr(f)>> >>) : f \in FileLists}
              \cup {Obj(<<Prompt>>)}
    [] tool = "doc-to-text" ->
         IF v = "index" THEN UrlOrInline("base64", << <<"pages", Str("1-2")>> >>)
         ELSE UrlOrInline("file", <<>>)
    [] tool = "add-to-knowledge-base" ->
         {Obj(<< <<"knowledgeBaseId", Str("kb1")>>, <<"content", Str("note")>> >>),
          Obj(<< <<"knowledgeBaseId", Str("kb1")>>, <<"content", Str("")>>,
                 <<"metadata", Obj(<< <<"tag", Str("a")>> >>)>>, Extra >>),
          Obj(<< <<"knowledgeBaseId", Str("kb1")>> >>)}
    [] tool = "search-knowledge-base" ->
         {Obj(<< <<"knowledgeBaseId", Str("kb1")>>, <<"query", Str("note")>> >>),
          Obj(<< <<"knowledgeBaseId", Str("kb1")>>, <<"query", Str("note")>>,
                 <<"resultCount", Num(3)>>, Extra >>),
          Obj(<< <<"query", Str("note")>> >>)}
    [] OTHER -> {Obj(<<>>)}

\* An upstream organic result with the fields interface SearchResultItem
\* requires, and one that also has the optional ones.
ItemPlain ==
  Obj(<< <<"title", Str("T")>>, <<"link", Str("L")>>, <<"snippet", Str("S")>>,
         <<"position", Num(1)>> >>)

ItemScraped ==
  Obj(<< <<"title", Str("T2")>>, <<"link", Str("L2")>>, <<"snippet", Str("S2")>>,
         <<"position", Num(2)>>, <<"date", Str("2024-01-01")>>,
         <<"scrapeOutput",
           Obj(<< <<"title", Str("T2")>>, <<"url", Str("L2")>>,
                  <<"format", Str("markdown")>>, <<"cleaned", Bool(TRUE)>>,
                  <<"content", Str("page text")>> >>)>> >>)

\* An organic result without the snippet the interface requires.
ItemNoSnippet ==
  Obj(<< <<"title", Str("T3")>>, <<"link", Str("L3")>>, <<"position", Num(3)>> >>)

SearchParameters == <<"searchParameters", Obj(<< <<"q", Str("rust ownership")>> >>)>>

\* The optional top-level fields of a search response: none, all three, and
\* present with values that are not truthy.
SearchExtras ==
  {<<>>,
   << <<"featuredSnippet", Obj(<< <<"title", Str("F")>> >>)>>,
      <<"relatedSearches", Arr(<<Obj(<< <<"query", Str("r")>> >>)>>)>>,
      <<"peopleAlsoAsk", Arr(<<>>)>> >>,
   << <<"featuredSnippet", Null>>, <<"relatedSearches", Str("")>> >>}

SearchBodies ==
  {Obj(<< <<"organic", Arr(items)>>, SearchParameters >> \o extras) :
     items \in SeqsUpTo({ItemPlain, ItemScraped}, MaxOrganic), extras \in SearchExtras}
  \cup {Obj(<< <<"organic", Arr(<<ItemNoSnippet>>)>>, SearchParameters >>),
        Obj(<< <<"organic", Arr(<<Null>>)>>, SearchParameters >>),
        Obj(<< <<"organic", Arr(<<ItemPlain>>)>> >>),
        Obj(<<SearchParameters>>)}

\* A value the upstream API sends for a field.
Sample(f) ==
  CASE f = "creditUsage" -> Num(1)
    [] f = "cleaned" -> Bool(FALSE)
    [] f \in {"suggestions", "places", "news", "pages", "results", "reviews"} ->
         Arr(<<Obj(<< <<"title", Str("x")>> >>)>>)
    [] f \in {"searchParameters", "metadata", "resource", "output"} ->
         Obj(<< <<"q", Str("pizza")>> >>)
    [] OTHER -> Str(f \o "-value")

\* An upstream body with the given fields.
BodyWith(fields) == Obj([j \in 1..Len(fields) |-> <<fields[j], Sample(fields[j])>>])

\* The success bodies the upstream API sends for a tool, as JSON values.
JsonBodies(v, tool) ==
  CASE tool = "get-youtube-transcript" ->
         {Obj(<< <<"transcript", Str("hello")>>, <<"language", Str("en")>> >>),
          Obj(<< <<"transcript", Str("")>>, <<"language", Str("no")>>,
                 <<"creditUsage", Num(1)>> >>),
          Obj(<< <<"transcript", Str("hello")>> >>),
          Null}
    [] tool = "search" -> SearchBodies \cup {Null}
    [] tool = "get-google-reviews" ->
         {BodyWith(<<"reviews", "averageRating", "creditUsage">>), Obj(<<>>), Null}
    [] tool = "crawl" ->
         {BodyWith(<<"baseUrl", "pages", "creditUsage", "requestId">>),
          BodyWith(<<"pages">>), Null}
    [] tool = "doc-to-text" ->
         {BodyWith(<<"text", "pages", "creditUsage", "requestId">>),
          BodyWith(<<"pages">>), Null}
    [] OTHER ->
         {BodyWith(PayloadFields(v, tool) \o <<"requestId">>),
          BodyWith(<<Head(PayloadFields(v, tool))>>),
          Null}

NotJson == "<html>Bad Gateway</html>"

\* Every JSON value the upstream API sends in this model.
AllJsonBodies ==
  UNION {UNION {JsonBodies(v, tool) : tool \in Tools(v)} : v \in Variants}

\* The JSON texts of this model, each with the value it denotes.
JsonTexts == {<<JSONstringify(d), d>> : d \in AllJsonBodies}

\* Whether JSON.parse(text) returns (it throws a SyntaxError otherwise).
IsJson(text) == \E p \in JsonTexts : p[1] = text

\* JSON.parse(text), for a text it accepts: the value the text denotes.
JSONparse(text) == (CHOOSE p \in JsonTexts : p[1] = text)[2]

\* What the upstream API answers with a non-success status.
ErrorResponses ==
  {[status |-> 404, body |-> "Not Found"],
   [status |-> 500, body |-> "{\"error\":\"quota\"}"],
   [status |-> 503, body |-> ""]}

\* The messages of the TypeError fetch rejects with on a network fault.
FetchFaults == {"fetch failed", "network socket closed"}

\* The ways the fetch of an invocation settles: a network fault, or a
\* response with a status and a body.
OutcomesOf(v, tool) ==
  {[kind |-> "fault", status |-> 0, body |-> m] : m \in FetchFaults}
  \cup {[kind |-> "response", status |-> 200, body |-> JSONstringify(d)] :
          d \in JsonBodies(v, tool)}
  \cup {[kind |-> "response", status |-> 200, body |-> NotJson]}
  \cup {[kind |-> "response", status |-> r.status, body |-> r.body] : r \in ErrorResponses}

\* The same, tabulated by file and tool.
OutcomeTable == [v \in Variants |-> [tool \in Tools(v) |-> OutcomesOf(v, tool)]]

FetchOutcomes(v, tool) == OutcomeTable[v][tool]

NoResponse == [kind |-> "none", status |-> 0, body |-> ""]

\* The handlers' projections, tabulated by file, tool and body.
ProjectTable ==
  [v \in Variants |-> [tool \in Tools(v) |-> [d \in AllJsonBodies |-> ProjectOf(v, tool, d)]]]

Project(v, tool, data) == ProjectTable[v][tool][data]

(***************************************************************************)
(* The state: the process, its environment and the tool invocations.       *)
(***************************************************************************)
VARIABLES
  variant,  \* which file runs: "index" or "part"
  proc,     \* "starting" until main() has connected the transport, "connected" until
            \* the host has initialized the session, then "running"; "exited"
  env,      \* process.env.DUMPLING_API_KEY
  registry, \* the names the server has registered, in order
  inv,      \* the invocations, by slot
  stdout    \* the kinds of chunk the process has written to standard output

vars == <<variant, proc, env, registry, inv, stdout>>

\* A slot with no invocation.  st is what the caller sees of an invocation
\* (pending, then succeeded or failed); pc is where its handler is suspended;
\* apiKey is the handler's local constant, envAtCall the value the environment
\* variable had when the call came in; reqs are the fetch calls made so far,
\* steps the stages the invocation has gone through; bodyRead tells whether
\* the body of the response arrived ("delivered") or its read broke off
\* ("broken"); stderr are the lines the handler has written with
\* console.error.
IdleInv ==
  [st |-> "idle", pc |-> "idle", tool |-> "", rawArgs |-> Undefined, args |-> Undefined,
   envAtCall |-> Undefined, apiKey |-> Undefined, reqs |-> <<>>, resp |-> NoResponse, result |-> NoResult,
   steps |-> <<>>, bodyRead |-> "none", stderr |-> <<>>]

UnknownToolName == "get-weather"

\* A catch block that throws a new Error around the one it caught.
FailedWrapped(rec, err, steps) ==
  [rec EXCEPT !.st = "failed", !.pc = "done",
              !.result = Throw(JsError("Error", "Request failed: " \o err.message)),
              !.steps = steps]

\* A throw whose message also reports how many calls are in flight.
FailedCounted(rec, err, steps) ==
  LET n == Cardinality({j \in DOMAIN inv : inv[j].st = "pending"})
  IN [rec EXCEPT !.st = "failed", !.pc = "done",
                 !.result = Throw(JsError(err.name,
                                          err.message \o " (" \o ToString(n) \o " in flight)")),
                 !.steps = steps]

\* An invocation that has ended with a throw.
Failed(rec, err, steps) ==
  [rec EXCEPT !.st = "failed", !.pc = "done", !.result = Throw(err), !.steps = steps]

\* catch (error) { console.error("Error ...:", error); throw error; }: an
\* invocation that has ended with a throw inside the handler's try block.
Caught(rec, err, steps) ==
  Failed([rec EXCEPT !.stderr = Append(rec.stderr, CatchLine(variant, rec.tool))], err, steps)

\* A handler that calls fetch before it tests the credential.
HandlerStartFetchFirst(v, rec, key) ==
  LET pre == Precondition(v, rec.tool, rec.args)
      checked == IF HasPrecondition(v, rec.tool)
                 THEN rec.steps \o <<"precondition">> ELSE rec.steps
      read == [rec EXCEPT !.apiKey = key]
      sent == [read EXCEPT !.reqs = Append(rec.reqs, Request(v, rec.tool, rec.args, key))]
  IN IF pre /= NoError THEN Failed(rec, JsError("Error", pre), checked)
     ELSE IF ~HasApiKey(key)
          THEN Failed(sent, JsError("Error", MissingKeyMessage),
                      checked \o <<"request", "credential">>)
     ELSE [sent EXCEPT !.st = "pending", !.pc = "await_fetch",
                       !.steps = checked \o <<"request", "credential">>]

\* A handler from its entry to its first await: the cross-field check, the
\* credential read and check, and the fetch call.
HandlerStart(v, rec, key) ==
  LET pre == Precondition(v, rec.tool, rec.args)
      checked == IF HasPrecondition(v, rec.tool)
                 THEN rec.steps \o <<"precondition">> ELSE rec.steps
      read == [rec EXCEPT !.apiKey = key]
  IN IF pre /= NoError THEN Failed(rec, JsError("Error", pre), checked)
     ELSE IF ~HasApiKey(key)
          THEN Failed(read, JsError("Error", MissingKeyMessage), checked \o <<"credential">>)
     ELSE [read EXCEPT !.st = "pending", !.pc = "await_fetch",
                       !.reqs = Append(rec.reqs, Request(v, rec.tool, rec.args, key)),
                       !.steps = checked \o <<"credential", "request">>]

\* The dispatcher on a call: look the tool up, parse the arguments against
\* its schema, call the handler.
Dispatch(v, tool, rawArgs, key) ==
  LET rec == [IdleInv EXCEPT !.st = "pending", !.tool = tool, !.rawArgs = rawArgs,
                             !.envAtCall = key]
  IN IF tool \notin Range(registry)
     THEN Failed(rec, JsError("McpError", "Tool " \o tool \o " not found"), <<"lookup">>)
     ELSE IF ~Validate(Schema(v, tool), rawArgs)
          THEN Failed(rec, JsError("McpError", "Invalid arguments for tool " \o tool),
                      <<"lookup", "validate">>)
     ELSE HandlerStart(v, [rec EXCEPT !.args = ParsedArgs(Schema(v, tool), rawArgs),
                                      !.steps = <<"lookup", "validate">>], key)

\* The error fetch rejects with on a network fault.
FetchFailed(message) == JsError("TypeError", message)
BodyFailed == JsError("TypeError", "terminated")
ParseFailed == JsError("SyntaxError", "Unexpected token in JSON")

\* A handler that calls fetch a second time when the first call rejects.
OnFetchSettledRetry(rec, outcome) ==
  IF outcome.kind = "fault"
  THEN IF Len(rec.reqs) < 2 THEN [rec EXCEPT !.reqs = Append(rec.reqs, rec.reqs[1])]
       ELSE Caught([rec EXCEPT !.resp = outcome], FetchFailed(outcome.body), rec.steps)
  ELSE [rec EXCEPT !.resp = outcome,
                   !.pc = IF ResponseOk(outcome.status) THEN "await_json" ELSE "await_text",
                   !.steps = rec.steps \o <<"status">>]

\* A handler resumed from `await fetch(...)`: the catch block rethrows a
\* rejection; a response has its status tested and its body requested.
OnFetchSettled(rec, outcome) ==
  IF outcome.kind = "fault"
  THEN Caught([rec EXCEPT !.resp = outcome], FetchFailed(outcome.body), rec.steps)
  ELSE [rec EXCEPT !.resp = outcome,
                   !.pc = IF ResponseOk(outcome.status) THEN "await_json" ELSE "await_text",
                   !.steps = rec.steps \o <<"status">>]

\* Handlers that keep the response in a variable of the module: a handler
\* resumed from its body read sees the response of another call that is
\* waiting for its body.
OnBodySettledShared(v, rec, delivered) ==
  LET others == {j \in DOMAIN inv : /\ inv[j].pc \in {"await_text", "await_json"}
                                    /\ inv[j].resp /= rec.resp}
      response == IF others = {} THEN rec.resp ELSE inv[CHOOSE j \in others : TRUE].resp
      got == [rec EXCEPT !.bodyRead = "delivered"]
  IN IF ~delivered THEN Caught([rec EXCEPT !.bodyRead = "broken"], BodyFailed, rec.steps)
     ELSE IF ~ResponseOk(response.status)
     THEN Caught(got, UpstreamFailure(v, rec.tool, response.status, response.body),
                 rec.steps \o <<"text">>)
     ELSE IF ~IsJson(response.body) THEN Caught(got, ParseFailed, rec.steps)
     ELSE LET r == Project(v, rec.tool, JSONparse(response.body))
          IN IF r.kind = "throw" THEN Caught(got, r.error, rec.steps \o <<"parse">>)
             ELSE [got EXCEPT !.st = "succeeded", !.pc = "done", !.result = r,
                              !.steps = rec.steps \o <<"parse", "project">>]

\* A handler whose catch block returns the error in place of rethrowing it.
OnBodySettledSwallow(v, rec, delivered) ==
  LET got == [rec EXCEPT !.bodyRead = "delivered"]
  IN IF ~delivered THEN Caught([rec EXCEPT !.bodyRead = "broken"], BodyFailed, rec.steps)
     ELSE IF rec.pc = "await_text"
     THEN [got EXCEPT !.st = "succeeded", !.pc = "done",
                      !.result = [kind |-> "return",
                                  content |-> <<[type |-> "text",
                                                 text |-> Str(rec.resp.body)]>>,
                                  error |-> UpstreamFailure(v, rec.tool, rec.resp.status,
                                                            rec.resp.body)],
                      !.steps = rec.steps \o <<"text">>]
     ELSE IF ~IsJson(rec.resp.body) THEN Caught(got, ParseFailed, rec.steps)
     ELSE LET r == Project(v, rec.tool, JSONparse(rec.resp.body))
          IN IF r.kind = "throw" THEN Caught(got, r.error, rec.steps \o <<"parse">>)
             ELSE [got EXCEPT !.st = "succeeded", !.pc = "done", !.result = r,
                              !.steps = rec.steps \o <<"parse", "project">>]

\* A handler resumed from `await response.text()` or `await response.json()`.
OnBodySettled(v, rec, delivered) ==
  LET got == [rec EXCEPT !.bodyRead = "delivered"]
  IN IF ~delivered THEN Caught([rec EXCEPT !.bodyRead = "broken"], BodyFailed, rec.steps)
     ELSE IF rec.pc = "await_text"
     THEN Caught(got, UpstreamFailure(v, rec.tool, rec.resp.status, rec.resp.body),
                 rec.steps \o <<"text">>)
     ELSE IF ~IsJson(rec.resp.body) THEN Caught(got, ParseFailed, rec.steps)
     ELSE LET r == Project(v, rec.tool, JSONparse(rec.resp.body))
          IN IF r.kind = "throw" THEN Caught(got, r.error, rec.steps \o <<"parse">>)
             ELSE [got EXCEPT !.st = "succeeded", !.pc = "done", !.result = r,
                              !.steps = rec.steps \o <<"parse", "project">>]

\* What the process writes to standard output: a message of the host's
\* protocol, written by the stdio transport, or a line of text.
Frame == [kind |-> "frame", text |-> "jsonrpc"]
Line(text) == [kind |-> "line", text |-> text]

Init ==
  /\ variant \in Variants
  /\ proc = "starting"
  /\ env \in EnvValues
  /\ registry = <<>>
  /\ inv = [i \in HostSlots |-> IdleInv]
  /\ stdout = {}

\* The module runs its next server.tool call; the SDK throws on a name it
\* already holds, which ends the process before main() is called.
Register ==
  /\ proc = "starting"
  /\ Len(registry) < Len(Registrations(variant))
  /\ LET name == Registrations(variant)[Len(registry) + 1]
     IN /\ proc' = IF name \in Range(registry) THEN "exited" ELSE "starting"
        /\ registry' = IF name \in Range(registry) THEN registry
                       ELSE Append(registry, name)
  /\ UNCHANGED <<variant, env, inv, stdout>>

\* main(): server.connect(transport) resolves, and main goes on to its
\* console.log, which writes to standard output.
Start ==
  /\ proc = "starting"
  /\ Len(registry) = Len(Registrations(variant))
  /\ proc' = "connected"
  /\ stdout' = stdout \cup {Line("Dumpling AI MCP Server running on stdio")}
  /\ UNCHANGED <<variant, env, registry, inv>>

\* The host opens the session: the transport reads its initialize request
\* and writes the answer, the first message on standard output.  The host
\* calls tools after that.
Initialize ==
  /\ proc = "connected"
  /\ proc' = "running"
  /\ stdout' = stdout \cup {Frame}
  /\ UNCHANGED <<variant, env, registry, inv>>

\* main(): server.connect(transport) rejects; the catch exits with status 1.
StartFails ==
  /\ proc = "starting"
  /\ Len(registry) = Len(Registrations(variant))
  /\ proc' = "exited"
  /\ UNCHANGED <<variant, env, registry, inv, stdout>>

\* Handlers whose request reads the variable when it is sent: a change of
\* the variable reaches the requests in flight.
SetEnvLive(value) ==
  /\ proc = "running"
  /\ value /= env
  /\ env' = value
  /\ inv' = [i \in DOMAIN inv |->
               IF inv[i].st = "pending" /\ inv[i].reqs /= <<>>
               THEN [inv[i] EXCEPT !.apiKey = value,
                                   !.reqs[1].authorization = "Bearer " \o ToJsString(value)]
               ELSE inv[i]]
  /\ UNCHANGED <<variant, proc, registry, stdout>>

\* The environment variable is set, changed or unset.
SetEnv(value) ==
  /\ proc = "running"
  /\ value /= env
  /\ env' = value
  /\ UNCHANGED <<variant, proc, registry, inv, stdout>>

\* A server that registers a name the first time it is called.
InvokeRegisters(i, tool, rawArgs) ==
  /\ proc = "running"
  /\ inv[i].st = "idle"
  /\ inv' = [inv EXCEPT ![i] = Dispatch(variant, tool, rawArgs, env)]
  /\ registry' = IF tool \in Range(registry) THEN registry ELSE Append(registry, tool)
  /\ UNCHANGED <<variant, proc, env, stdout>>

\* Handlers that keep the key they read in a variable of the module: a call
\* made while another call holds a key uses that key.
InvokeCachedKey(i, tool, rawArgs) ==
  LET cached == {inv[j].apiKey : j \in {k \in DOMAIN inv : Truthy(inv[k].apiKey)}}
      key == IF cached = {} THEN env ELSE CHOOSE k \in cached : TRUE
  IN /\ proc = "running"
     /\ inv[i].st = "idle"
     /\ inv' = [inv EXCEPT ![i] = Dispatch(variant, tool, rawArgs, key)]
     /\ UNCHANGED <<variant, proc, env, registry, stdout>>

\* The host calls a tool.
Invoke(i, tool, rawArgs) ==
  /\ proc = "running"
  /\ inv[i].st = "idle"
  /\ inv' = [inv EXCEPT ![i] = Dispatch(variant, tool, rawArgs, env)]
  /\ UNCHANGED <<variant, proc, env, registry, stdout>>

\* The fetch of invocation i settles.
FetchSettles(i) ==
  /\ inv[i].pc = "await_fetch"
  /\ \E outcome \in FetchOutcomes(variant, inv[i].tool) :
       inv' = [inv EXCEPT ![i] = OnFetchSettled(inv[i], outcome)]
  /\ UNCHANGED <<variant, proc, env, registry, stdout>>

\* The body read of invocation i settles: delivered, or broken off.
BodySettles(i, delivered) ==
  /\ inv[i].pc \in {"await_text", "await_json"}
  /\ inv' = [inv EXCEPT ![i] = OnBodySettled(variant, inv[i], delivered)]
  /\ UNCHANGED <<variant, proc, env, registry, stdout>>

\* A server that gives up on a call that is still waiting: it answers the
\* host and drops the invocation.
ReleaseTimesOut(i) ==
  /\ inv[i].st \in {"pending", "succeeded", "failed"}
  /\ inv' = [inv EXCEPT ![i] = IdleInv]
  /\ stdout' = stdout \cup {Frame}
  /\ UNCHANGED <<variant, proc, env, registry>>

\* A server on which the rejection of a handler is not caught: the process
\* ends with the failed invocation.
ReleaseExits(i) ==
  /\ inv[i].st \in {"succeeded", "failed"}
  /\ inv' = [inv EXCEPT ![i] = IdleInv]
  /\ proc' = IF inv[i].st = "failed" THEN "exited" ELSE proc
  /\ stdout' = stdout \cup {Frame}
  /\ UNCHANGED <<variant, env, registry>>

\* The transport writes the outcome of invocation i to the host, as a
\* message on standard output; the invocation is gone.
Release(i) ==
  /\ inv[i].st \in {"succeeded", "failed"}
  /\ inv' = [inv EXCEPT ![i] = IdleInv]
  /\ stdout' = stdout \cup {Frame}
  /\ UNCHANGED <<variant, proc, env, registry>>

Next ==
  \/ Register
  \/ Start
  \/ StartFails
  \/ Initialize
  \/ \E value \in EnvValues : SetEnv(value)
  \/ \E i \in DOMAIN inv : \E tool \in Tools(variant) \cup {UnknownToolName} :
       \E rawArgs \in ArgChoices(variant, tool) : Invoke(i, tool, rawArgs)
  \/ \E i \in DOMAIN inv : FetchSettles(i)
  \/ \E i \in DOMAIN inv : \E delivered \in BOOLEAN : BodySettles(i, delivered)
  \/ \E i \in DOMAIN inv : Release(i)

Spec == Init /\ [][Next]_vars

(***************************************************************************)
(* A host that keeps two calls in flight.  The handlers and the steps are  *)
(* those of Spec; the host calls two of the tools, with a few of their     *)
(* arguments, and the upstream API sends a few of its answers.             *)
(***************************************************************************)
ConcSlots == {1, 2}

ConcTools == {"search", "get-google-reviews"}

ConcEnvValues == {Undefined, Str("key-A"), Str("key-B")}

ConcArgs(tool) ==
  IF tool = "search"
  THEN {Obj(<< <<"query", Str("rust ownership")>> >>),
        Obj(<< <<"query", Str("q")>>, <<"dateRange", Str("pastDay")>>, Extra >>),
        Obj(<< <<"query", Num(7)>> >>)}
  ELSE {Obj(<<>>),
        Obj(<< <<"placeId", Str("p1")>> >>),
        Obj(<< <<"businessName", Str("Cafe")>>, <<"limit", Num(5)>> >>)}

ConcBodies(tool) ==
  IF tool = "search"
  THEN {Obj(<< <<"organic", Arr(items)>>, SearchParameters >>) :
          items \in {<<ItemPlain>>, <<ItemScraped>>}}
  ELSE {BodyWith(<<"reviews", "averageRating", "creditUsage">>), Obj(<<>>)}

ConcOutcomes(tool) ==
  {[kind |-> "fault", status |-> 0, body |-> "fetch failed"],
   [kind |-> "response", status |-> 500, body |-> "{\"error\":\"quota\"}"],
   [kind |-> "response", status |-> 200, body |-> NotJson]}
  \cup {[kind |-> "response", status |-> 200, body |-> JSONstringify(d)] :
          d \in ConcBodies(tool)}

InitConc ==
  /\ variant \in Variants
  /\ proc = "starting"
  /\ env \in ConcEnvValues
  /\ registry = <<>>
  /\ inv = [i \in ConcSlots |-> IdleInv]
  /\ stdout = {}

\* The fetch of invocation i settles, while other invocations are in flight.
FetchSettlesConc(i) ==
  /\ inv[i].pc = "await_fetch"
  /\ \E outcome \in ConcOutcomes(inv[i].tool) :
       inv' = [inv EXCEPT ![i] = OnFetchSettled(inv[i], outcome)]
  /\ UNCHANGED <<variant, proc, env, registry, stdout>>

NextConc ==
  \/ Register
  \/ Start
  \/ StartFails
  \/ Initialize
  \/ \E value \in ConcEnvValues : SetEnv(value)
  \/ \E i \in DOMAIN inv : \E tool \in ConcTools :
       \E rawArgs \in ConcArgs(tool) : Invoke(i, tool, rawArgs)
  \/ \E i \in DOMAIN inv : FetchSettlesConc(i)
  \/ \E i \in DOMAIN inv : \E delivered \in BOOLEAN : BodySettles(i, delivered)
  \/ \E i \in DOMAIN inv : Release(i)

SpecConc == InitConc /\ [][NextConc]_vars

(***************************************************************************)
(* The server of Spec with an upstream API that answers: the fetch of an   *)
(* invocation settles, with a response or a network fault, and so does the *)
(* read of a response's body.  The handlers set no timer and hold no abort *)
(* signal, so these are the only steps an awaiting handler takes.          *)
(***************************************************************************)
UpstreamAnswers ==
  \A i \in HostSlots :
    /\ WF_vars(FetchSettles(i))
    /\ WF_vars(\E delivered \in BOOLEAN : BodySettles(i, delivered))

SpecLive == Init /\ [][Next]_vars /\ UpstreamAnswers

(***************************************************************************)
(* Vocabulary of the properties.                                           *)
(***************************************************************************)
\* Whether string s contains string sub.
Contains(s, sub) ==
  \E j \in 1..(Len(s) - Len(sub) + 1) : SubSeq(s, j, j + Len(sub) - 1) = sub

\* The handler of the invocation was entered: the tool is registered and the
\* arguments satisfied its schema.
HandlerRan(r) == r.args /= Undefined

Ended(r) == r.st \in {"succeeded", "failed"}

\* The spec's error classes, by what the handlers throw.
MissingCredential(r) ==
  /\ r.st = "failed"
  /\ r.result.error = JsError("Error", "DUMPLING_API_KEY environment variable not set")

PreconditionMessages ==
  {"Either placeId or businessName is required", "Either url or base64 is required",
   "Either url or file is required", "Each image must have either url or base64"}

PreconditionFailed(r) ==
  /\ r.st = "failed"
  /\ r.result.error.name = "Error"
  /\ r.result.error.message \in PreconditionMessages

\* The handler's cross-field check let the invocation through.
PassedPrecondition(r) == HandlerRan(r) /\ Precondition(variant, r.tool, r.args) = NoError

(***************************************************************************)
(* C1.  As stated: for every registered tool, an invocation made while     *)
(* DUMPLING_API_KEY is unset fails with the MissingCredential error and    *)
(* issues no outbound request.                                             *)
(***************************************************************************)
C1_UnsetKeyAlwaysMissingCredential ==
  \A i \in DOMAIN inv :
    (HandlerRan(inv[i]) /\ inv[i].envAtCall = Undefined)
      => (MissingCredential(inv[i]) /\ inv[i].reqs = <<>>)

(***************************************************************************)
(* C1, amended: for every registered tool, an invocation made while the    *)
(* key is unset, whose arguments pass the schema and the handler's         *)
(* cross-field check, fails with the MissingCredential error; one whose    *)
(* arguments pass the schema and fail the cross-field check fails with     *)
(* PreconditionFailed; and any invocation made while the key is unset      *)
(* issues no outbound request.                                             *)
(***************************************************************************)
C1_UnsetKeyMissingCredential ==
  \A i \in DOMAIN inv :
    /\ (PassedPrecondition(inv[i]) /\ inv[i].envAtCall = Undefined)
         => MissingCredential(inv[i])
    /\ (HandlerRan(inv[i]) /\ ~PassedPrecondition(inv[i]) /\ inv[i].envAtCall = Undefined)
         => PreconditionFailed(inv[i])
    /\ (inv[i].st /= "idle" /\ inv[i].envAtCall = Undefined) => inv[i].reqs = <<>>

C1_Witness ==
  \E i \in DOMAIN inv :
    /\ PassedPrecondition(inv[i])
    /\ inv[i].tool = "search-knowledge-base"
    /\ inv[i].envAtCall = Undefined
    /\ MissingCredential(inv[i])
    /\ inv[i].reqs = <<>>

(***************************************************************************)
(* C2.  For extract-document, extract-image, extract-video and             *)
(* doc-to-text, in both files, an invocation in which neither a URL nor    *)
(* inline content is set fails with PreconditionFailed and issues no       *)
(* outbound request.                                                       *)
(***************************************************************************)
UrlOrInlineTools == {"extract-document", "extract-image", "extract-video", "doc-to-text"}

\* Neither a URL nor inline content is set in the arguments: for the tools
\* that take a list of images or files, in one of its elements.
NeitherSet(args) ==
  LET Absent(o) == \A k \in {"url", "base64", "file", "content"} : ~Has(o, k)
      List(k) == Get(args, k).a
  IN CASE Has(args, "images") -> \E j \in 1..Len(List("images")) : Absent(List("images")[j])
       [] Has(args, "files") -> \E j \in 1..Len(List("files")) : Absent(List("files")[j])
       [] OTHER -> Absent(args)

C2_NeitherSetFails ==
  \A i \in DOMAIN inv :
    (HandlerRan(inv[i]) /\ inv[i].tool \in UrlOrInlineTools /\ NeitherSet(inv[i].args))
      => (PreconditionFailed(inv[i]) /\ inv[i].reqs = <<>>)

(***************************************************************************)
(* C3.  get-google-reviews with neither placeId nor businessName set fails *)
(* with "Either placeId or businessName is required" and issues no         *)
(* request, whatever the other parameters; with one of the two set and not *)
(* empty the check passes and the handler goes on to the credential check. *)
(***************************************************************************)
C3_ReviewsPrecondition ==
  \A i \in DOMAIN inv :
    LET r == inv[i]
        NonEmpty(k) == Has(r.args, k) /\ Get(r.args, k) /= Str("")
    IN (HandlerRan(r) /\ r.tool = "get-google-reviews") =>
         /\ (~Has(r.args, "placeId") /\ ~Has(r.args, "businessName"))
              => /\ r.st = "failed"
                 /\ r.result.error =
                      JsError("Error", "Either placeId or businessName is required")
                 /\ r.reqs = <<>>
         /\ (NonEmpty("placeId") \/ NonEmpty("businessName"))
              => /\ ~PreconditionFailed(r)
                 /\ "credential" \in Range(r.steps)
                 /\ (Truthy(r.envAtCall) => Len(r.reqs) = 1)

C3_Witness ==
  \E i \in DOMAIN inv :
    /\ inv[i].tool = "get-google-reviews"
    /\ HandlerRan(inv[i])
    /\ ~Has(inv[i].args, "placeId") /\ ~Has(inv[i].args, "businessName")
    /\ Has(inv[i].args, "limit")
    /\ Truthy(inv[i].envAtCall)
    /\ PreconditionFailed(inv[i])

(***************************************************************************)
(* C4.  An invocation issues at most one outbound request in its lifetime, *)
(* exactly one when it passes the cross-field and credential checks, none  *)
(* otherwise; a request that failed is not sent again.                     *)
(***************************************************************************)
C4_OneRequest ==
  \A i \in DOMAIN inv :
    LET r == inv[i]
        passes == PassedPrecondition(r) /\ Truthy(r.envAtCall)
    IN /\ Len(r.reqs) <= 1
       /\ (r.st /= "idle" /\ passes) => Len(r.reqs) = 1
       /\ (r.st /= "idle" /\ ~passes) => Len(r.reqs) = 0

C4_Witness ==
  \E i \in DOMAIN inv :
    /\ inv[i].tool = "search"
    /\ inv[i].st = "failed"
    /\ inv[i].resp.kind = "response" /\ inv[i].resp.status = 503
    /\ Len(inv[i].reqs) = 1

(***************************************************************************)
(* C5.  For every tool, a response with a non-success status whose body    *)
(* has been read ends the invocation in failed with an Error whose message *)
(* contains the status code and the body text verbatim; the body is not    *)
(* parsed and no payload is produced.                                      *)
(***************************************************************************)
C5_UpstreamError ==
  \A i \in DOMAIN inv :
    LET r == inv[i]
    IN (/\ r.resp.kind = "response"
        /\ (r.resp.status < 200 \/ r.resp.status > 299)
        /\ r.pc = "done"
        /\ "text" \in Range(r.steps))
         => /\ r.st = "failed"
            /\ r.result.error.name = "Error"
            /\ Contains(r.result.error.message, ToString(r.resp.status))
            /\ Contains(r.result.error.message, r.resp.body)
            /\ Contains(r.result.error.message,
                        ToString(r.resp.status) \o " " \o r.resp.body)
            /\ "parse" \notin Range(r.steps)
            /\ r.result.content = <<>>

C5_Witness ==
  \E i \in DOMAIN inv :
    /\ inv[i].tool = "add-to-knowledge-base"
    /\ inv[i].resp.status = 500
    /\ inv[i].resp.body = "{\"error\":\"quota\"}"
    /\ inv[i].st = "failed"
    /\ Contains(inv[i].result.error.message, "500 {\"error\":\"quota\"}")

(***************************************************************************)
(* C6.  An invocation starts pending and moves at most once, to succeeded  *)
(* or to failed; a call that throws before its first await is failed at    *)
(* once.  Succeeded or failed, it does not change again for as long as it  *)
(* exists, and it never holds both a result and an error: succeeded holds  *)
(* content and no error, failed holds an error and no content, pending     *)
(* holds neither.                                                          *)
(***************************************************************************)
C6_Lifecycle ==
  [][\A i \in DOMAIN inv :
       /\ inv[i].st = "idle" => inv'[i].st \in {"idle", "pending", "failed"}
       /\ inv[i].st = "pending" => inv'[i].st \in {"pending", "succeeded", "failed"}
       /\ Ended(inv[i]) => (inv'[i] = inv[i] \/ inv'[i] = IdleInv)
       /\ inv'[i].st \in {"idle", "pending"} => inv'[i].result = NoResult
       /\ inv'[i].st = "succeeded"
            => /\ inv'[i].result.kind = "return"
               /\ inv'[i].result.content /= <<>>
               /\ inv'[i].result.error = NoJsError
       /\ inv'[i].st = "failed"
            => /\ inv'[i].result.kind = "throw"
               /\ inv'[i].result.content = <<>>
               /\ inv'[i].result.error /= NoJsError]_vars

C6_Witness ==
  \E i \in DOMAIN inv :
    /\ inv[i].tool = "get-youtube-transcript"
    /\ inv[i].st = "failed"
    /\ inv[i].resp.kind = "response" /\ inv[i].resp.status = 404
    /\ "text" \in Range(inv[i].steps)

(***************************************************************************)
(* C7.  The steps of an invocation happen in the order validate,           *)
(* credential check, request, parse, project, each at most once: a request *)
(* exists only when the arguments satisfied the schema and the key read    *)
(* was usable, the body is parsed only after a success status was seen,    *)
(* and a payload exists only after the body was parsed.                    *)
(***************************************************************************)
StepOrder ==
  <<"lookup", "validate", "precondition", "credential", "request", "status", "text",
    "parse", "project">>

Rank(step) == CHOOSE k \in 1..Len(StepOrder) : StepOrder[k] = step

C7_StepOrder ==
  \A i \in DOMAIN inv :
    LET r == inv[i]
        did == Range(r.steps)
    IN /\ \A j, k \in 1..Len(r.steps) : j < k => Rank(r.steps[j]) < Rank(r.steps[k])
       /\ "credential" \in did => "validate" \in did
       /\ "request" \in did <=> r.reqs /= <<>>
       /\ r.reqs /= <<>>
            => /\ {"validate", "credential"} \subseteq did
               /\ r.tool \in Tools(variant)
               /\ Validate(Schema(variant, r.tool), r.rawArgs)
               /\ Truthy(r.apiKey) /\ r.apiKey = r.envAtCall
       /\ "parse" \in did
            => /\ {"request", "status"} \subseteq did
               /\ r.resp.kind = "response"
               /\ r.resp.status \in 200..299
               /\ IsJson(r.resp.body)
       /\ r.result.kind = "return" <=> "project" \in did
       /\ "project" \in did => "parse" \in did

C7_Witness ==
  \E i \in DOMAIN inv :
    /\ inv[i].tool = "scrape"
    /\ inv[i].st = "succeeded"
    /\ inv[i].steps = <<"lookup", "validate", "credential", "request", "status", "parse",
                        "project">>

(***************************************************************************)
(* C8.  For search, a success response shaped as the source declares it    *)
(* (searchParameters, and organic a list of items with title, link,        *)
(* snippet and position) gives the formatted JSON of an object holding     *)
(* searchParameters and organicResults, the latter with one item per       *)
(* organic item, in the same order, each holding exactly title, link,      *)
(* snippet, position, and content exactly when the item has a              *)
(* scrapeOutput; of featuredSnippet, relatedSearches and peopleAlsoAsk the *)
(* payload has only keys the response has, so none when it has none.       *)
(***************************************************************************)
SearchOptionals == <<"featuredSnippet", "relatedSearches", "peopleAlsoAsk">>

\* interface SearchResultItem.
IsSearchResultItem(it) ==
  /\ it.t = "object"
  /\ \A k \in {"title", "link", "snippet"} : Get(it, k).t = "string"
  /\ Get(it, "position").t = "number"
  /\ Has(it, "scrapeOutput")
       => /\ Get(it, "scrapeOutput").t = "object"
          /\ Get(Get(it, "scrapeOutput"), "content").t = "string"

IsSearchResponse(data) ==
  /\ data.t = "object"
  /\ Has(data, "searchParameters")
  /\ Get(data, "organic").t = "array"
  /\ \A j \in 1..Len(Get(data, "organic").a) : IsSearchResultItem(Get(data, "organic").a[j])

ExpectedItem(it) ==
  Obj(<< <<"title", Get(it, "title")>>, <<"link", Get(it, "link")>>,
         <<"snippet", Get(it, "snippet")>>, <<"position", Get(it, "position")>> >>
      \o (IF Has(it, "scrapeOutput")
          THEN << <<"content", Get(Get(it, "scrapeOutput"), "content")>> >> ELSE <<>>))

\* The payload object with the optional keys chosen by keep.
ExpectedSearch(data, keep) ==
  LET organic == Get(data, "organic").a
  IN Obj(<< <<"searchParameters", Get(data, "searchParameters")>>,
            <<"organicResults", Arr([j \in 1..Len(organic) |-> ExpectedItem(organic[j])])>> >>
         \o PickPresent(SelectSeq(SearchOptionals, LAMBDA k : k \in keep), data))

\* The response of an invocation whose body was read as JSON.
Upstream(r) == JSONparse(r.resp.body)

GotJson(r) ==
  /\ r.pc = "done"
  /\ r.resp.kind = "response" /\ r.resp.status \in 200..299
  /\ "parse" \in Range(r.steps)

C8_SearchPayload ==
  \A i \in DOMAIN inv :
    LET r == inv[i]
    IN (r.tool = "search" /\ GotJson(r) /\ IsSearchResponse(Upstream(r)))
         => /\ r.st = "succeeded"
            /\ Len(r.result.content) = 1
            /\ r.result.content[1].type = "text"
            /\ \E keep \in SUBSET {k \in Range(SearchOptionals) : Has(Upstream(r), k)} :
                 r.result.content[1].text =
                   Str(JSONstringify2(ExpectedSearch(Upstream(r), keep)))

C8_Witness ==
  \E i \in DOMAIN inv :
    /\ inv[i].tool = "search"
    /\ inv[i].st = "succeeded"
    /\ IsSearchResponse(Upstream(inv[i]))
    /\ Get(Upstream(inv[i]), "organic") = Arr(<<ItemScraped, ItemPlain>>)
    /\ \A k \in Range(SearchOptionals) : ~Has(Upstream(inv[i]), k)
    /\ ~Contains(inv[i].result.content[1].text.s, "featuredSnippet")
    /\ Contains(inv[i].result.content[1].text.s, "\"content\": \"page text\"")

(***************************************************************************)
(* C9.  As stated: for every tool with a declared projection, the payload  *)
(* of a successful invocation is the formatted JSON of an object holding   *)
(* each declared field exactly when the upstream response has it, and no   *)
(* other field.  The declared projection is the one the specification      *)
(* names for scrape and crawl and for the rest the fields of the handler's *)
(* object literal; get-google-reviews has none declared, and               *)
(* get-youtube-transcript and the raw text of doc-to-text are not JSON.    *)
(***************************************************************************)
DeclaredProjection(v, tool) ==
  CASE tool = "scrape" -> <<"title", "url", "content", "metadata">>
    [] tool = "crawl" -> <<"baseUrl", "pages", "creditUsage">>
    [] OTHER -> PayloadFields(v, tool)

PayloadText(r) == r.result.content[1].text

C9_OnlyDeclaredFields ==
  \A i \in DOMAIN inv :
    LET r == inv[i]
        present == {k \in Range(SearchOptionals) : Has(Upstream(r), k)}
    IN (/\ GotJson(r) /\ r.st = "succeeded" /\ Upstream(r).t = "object"
        /\ r.tool \notin {"get-youtube-transcript", "get-google-reviews"}
        /\ ~(variant = "part" /\ r.tool = "doc-to-text"))
         => PayloadText(r) =
              Str(JSONstringify2(
                    IF r.tool = "search" THEN ExpectedSearch(Upstream(r), present)
                    ELSE Obj(PickPresent(DeclaredProjection(variant, r.tool), Upstream(r)))))

(***************************************************************************)
(* C9, amended: the payload of a successful invocation is, for             *)
(* get-google-reviews and for crawl of src/src/index.ts, the formatted     *)
(* JSON of the whole upstream body; for search, searchParameters and       *)
(* organicResults plus each of featuredSnippet, relatedSearches and        *)
(* peopleAlsoAsk exactly when the upstream value is truthy; for every      *)
(* other tool that returns JSON, the fields of the handler's object        *)
(* literal, in its order, each exactly when the upstream body has it, and  *)
(* no other field.                                                         *)
(***************************************************************************)
WholeBodyTools(v) == IF v = "index" THEN {"get-google-reviews", "crawl"} ELSE {"get-google-reviews"}

PlainTextTools(v) ==
  IF v = "index" THEN {"get-youtube-transcript"} ELSE {"get-youtube-transcript", "doc-to-text"}

C9_ProjectionPerTool ==
  \A i \in DOMAIN inv :
    LET r == inv[i]
        truthy == {k \in Range(SearchOptionals) : Truthy(Get(Upstream(r), k))}
    IN (GotJson(r) /\ r.st = "succeeded" /\ r.tool \notin PlainTextTools(variant))
         => /\ Len(r.result.content) = 1
            /\ r.result.content[1].type = "text"
            /\ PayloadText(r) =
                 Str(JSONstringify2(
                       CASE r.tool \in WholeBodyTools(variant) -> Upstream(r)
                         [] r.tool = "search" -> ExpectedSearch(Upstream(r), truthy)
                         [] OTHER ->
                              Obj(PickPresent(PayloadFields(variant, r.tool), Upstream(r)))))

C9_Witness ==
  \E i \in DOMAIN inv :
    /\ inv[i].tool = "search-maps"
    /\ inv[i].st = "succeeded"
    /\ Has(Upstream(inv[i]), "requestId")
    /\ Has(Upstream(inv[i]), "ll")
    /\ ~Contains(PayloadText(inv[i]).s, "requestId")
    /\ Contains(PayloadText(inv[i]).s, "\"ll\": \"ll-value\"")

(***************************************************************************)
(* C10.  For get-youtube-transcript, a success response whose body carries *)
(* the strings transcript t and language l gives one text item whose text  *)
(* is "Transcript: " t, a line break, "Language: " l, and nothing else.    *)
(***************************************************************************)
C10_TranscriptText ==
  \A i \in DOMAIN inv :
    LET r == inv[i]
        t == Get(Upstream(r), "transcript")
        l == Get(Upstream(r), "language")
    IN (/\ r.tool = "get-youtube-transcript" /\ GotJson(r)
        /\ Upstream(r).t = "object" /\ t.t = "string" /\ l.t = "string")
         => /\ r.st = "succeeded"
            /\ r.result.content =
                 <<[type |-> "text",
                    text |-> Str("Transcript: " \o t.s \o "\n" \o "Language: " \o l.s)]>>

C10_Witness ==
  \E i \in DOMAIN inv :
    /\ inv[i].tool = "get-youtube-transcript"
    /\ inv[i].st = "succeeded"
    /\ Upstream(inv[i]) = Obj(<< <<"transcript", Str("hello")>>, <<"language", Str("en")>> >>)
    /\ inv[i].result.content = <<[type |-> "text", text |-> Str("Transcript: hello\nLanguage: en")]>>

(***************************************************************************)
(* C11.  Determinism: two invocations of the same tool with the same       *)
(* arguments and the same credential, whose fetch and body read settled    *)
(* the same way, have the same outcome, the same payload or the same       *)
(* error, whatever else the server was asked to do before or meanwhile.    *)
(***************************************************************************)
SameCall(a, b) ==
  /\ a.tool = b.tool
  /\ a.rawArgs = b.rawArgs
  /\ a.envAtCall = b.envAtCall
  /\ a.resp = b.resp
  /\ a.bodyRead = b.bodyRead

C11_Determinism ==
  \A i, j \in DOMAIN inv :
    (Ended(inv[i]) /\ Ended(inv[j]) /\ SameCall(inv[i], inv[j]))
      => /\ inv[i].st = inv[j].st
         /\ inv[i].result = inv[j].result
         /\ inv[i].reqs = inv[j].reqs

C11_Witness ==
  /\ inv[1].tool = "search" /\ inv[1].st = "failed"
  /\ inv[1].resp.kind = "fault"
  /\ inv[2].st = "failed"
  /\ SameCall(inv[1], inv[2])
  /\ inv[1].result = inv[2].result

(***************************************************************************)
(* C12.  Isolation: with several invocations in flight and their           *)
(* responses arriving in any order, the request and the outcome of each    *)
(* are what the handler computes from that invocation's own arguments, the *)
(* credential at its call and its own response, as if it had run alone.    *)
(***************************************************************************)
\* The invocation r run alone on its own inputs: the call, then its own
\* response if one has arrived, then its body read if that has settled.
RunAlone(r) ==
  LET called == Dispatch(variant, r.tool, r.rawArgs, r.envAtCall)
      fetched == IF called.pc = "await_fetch" /\ r.resp.kind /= "none"
                 THEN OnFetchSettled(called, r.resp) ELSE called
  IN IF fetched.pc \in {"await_text", "await_json"} /\ r.bodyRead /= "none"
     THEN OnBodySettled(variant, fetched, r.bodyRead = "delivered") ELSE fetched

C12_Isolation ==
  \A i \in DOMAIN inv :
    inv[i].st /= "idle"
      => /\ inv[i] = RunAlone(inv[i])
         /\ inv[i].reqs /= <<>>
              => inv[i].reqs = <<Request(variant, inv[i].tool, inv[i].args, inv[i].envAtCall)>>

C12_Witness ==
  /\ inv[1].tool = "search" /\ inv[2].tool = "search"
  /\ inv[1].st = "succeeded" /\ inv[2].st = "succeeded"
  /\ inv[1].rawArgs /= inv[2].rawArgs
  /\ inv[1].resp /= inv[2].resp
  /\ inv[1].result /= inv[2].result
  /\ inv[1].reqs /= inv[2].reqs

(***************************************************************************)
(* C13.  A failed invocation is reported as that invocation's error and    *)
(* does not end the process: while an invocation exists the process runs,  *)
(* a running process stays running, a settled invocation can be handed to  *)
(* the host and a free slot of a running server accepts a call; the        *)
(* process exits only from startup, in main, with no invocation made.      *)
(***************************************************************************)
C13_FailuresAreLocal ==
  /\ [](\A i \in DOMAIN inv :
          /\ inv[i].st /= "idle" => proc = "running"
          /\ Ended(inv[i]) => ENABLED Release(i)
          /\ (proc = "running" /\ inv[i].st = "idle")
               => ENABLED (\E tool \in Tools(variant) :
                             \E rawArgs \in ArgChoices(variant, tool) :
                               Invoke(i, tool, rawArgs)))
  /\ [][/\ proc = "running" => proc' = "running"
        /\ (proc' = "exited" /\ proc /= "exited")
             => /\ proc = "starting"
                /\ registry = Registrations(variant)
                /\ \A i \in DOMAIN inv : inv[i] = IdleInv]_vars

C13_Witness ==
  \E i \in DOMAIN inv :
    /\ inv[i].st = "failed"
    /\ inv[i].result.error.name = "SyntaxError"
    /\ proc = "running"

(***************************************************************************)
(* C14.  The JSON body of the request holds exactly the parameters the     *)
(* tool's schema declares that the call's arguments have: a declared       *)
(* parameter the call does not give is no key of the body (and no null),   *)
(* and an argument the schema does not declare is not in the body.         *)
(***************************************************************************)
C14_RequestBody ==
  \A i \in DOMAIN inv :
    LET r == inv[i]
        declared == Names(Schema(variant, r.tool))
    IN r.reqs /= <<>>
         => /\ r.reqs[1].body = JSONstringify(Obj(PickPresent(declared, r.args)))
            /\ \A k \in Range(declared) :
                 Has(r.rawArgs, k) <=> Contains(r.reqs[1].body, Quote(k) \o ":")
            /\ ~Contains(r.reqs[1].body, "null")
            /\ ~Contains(r.reqs[1].body, Extra[1])

C14_Witness ==
  \E i \in DOMAIN inv :
    /\ inv[i].tool = "screenshot"
    /\ inv[i].reqs /= <<>>
    /\ Has(inv[i].rawArgs, Extra[1])
    /\ ~Has(inv[i].rawArgs, "format")
    /\ inv[i].reqs[1].body =
         "{\"url\":\"https://example.com/a\",\"viewportWidth\":800,\"fullPage\":true}"

(***************************************************************************)
(* C15.  The request of an invocation is a POST to                         *)
(* https://app.dumplingai.com/api/v1/ followed by the name the tool is     *)
(* registered under, with content type application/json and the header     *)
(* Authorization: Bearer <key>; two invocations post to the same URL only  *)
(* when they are of the same tool.                                         *)
(***************************************************************************)
C15_Endpoint ==
  \A i \in DOMAIN inv :
    inv[i].reqs /= <<>>
      => /\ Len(inv[i].reqs) = 1
         /\ inv[i].tool \in Range(registry)
         /\ inv[i].reqs[1].url = "https://app.dumplingai.com/api/v1/" \o inv[i].tool
         /\ inv[i].reqs[1].method = "POST"
         /\ inv[i].reqs[1].contentType = "application/json"
         /\ inv[i].apiKey.t = "string"
         /\ inv[i].reqs[1].authorization = "Bearer " \o inv[i].apiKey.s

C15_Witness ==
  \E i \in DOMAIN inv :
    /\ inv[i].tool = "search-places"
    /\ inv[i].reqs /= <<>>
    /\ inv[i].reqs[1].url = "https://app.dumplingai.com/api/v1/search-places"
    /\ inv[i].reqs[1].authorization = "Bearer key-B"

(***************************************************************************)
(* C16.  A call of a registered tool whose arguments violate its schema    *)
(* (a required parameter missing, a videoUrl that is no URL, a dateRange   *)
(* outside the enumeration, a parameter of the wrong type) fails with      *)
(* InvalidArguments before the handler runs: the key is not read and no    *)
(* request is made.                                                        *)
(***************************************************************************)
InvalidArguments(r) ==
  /\ r.st = "failed"
  /\ r.result.error = JsError("McpError", "Invalid arguments for tool " \o r.tool)
  /\ r.args = Undefined
  /\ r.apiKey = Undefined
  /\ r.reqs = <<>>
  /\ r.steps = <<"lookup", "validate">>

C16_InvalidArguments ==
  \A i \in DOMAIN inv :
    LET r == inv[i]
        schema == Schema(variant, r.tool)
        given(k) == Get(r.rawArgs, k)
    IN (r.st /= "idle" /\ r.tool \in Range(registry))
         => /\ ~Validate(schema, r.rawArgs) => InvalidArguments(r)
            /\ (\E j \in 1..Len(schema) : schema[j].req /\ ~Has(r.rawArgs, schema[j].name))
                 => InvalidArguments(r)
            /\ (r.tool = "get-youtube-transcript" /\ given("videoUrl") = Str("youtu.be/x"))
                 => InvalidArguments(r)
            /\ (r.tool = "search" /\ given("dateRange") = Str("lastYear"))
                 => InvalidArguments(r)
            /\ (r.tool = "search" /\ given("query").t = "number") => InvalidArguments(r)

C16_Witness ==
  \E i \in DOMAIN inv :
    /\ inv[i].tool = "search"
    /\ Get(inv[i].rawArgs, "dateRange") = Str("lastYear")
    /\ Truthy(inv[i].envAtCall)
    /\ InvalidArguments(inv[i])

(***************************************************************************)
(* C17.  The registered names are pairwise distinct in every state; once   *)
(* startup is over the registry is the one the module built and no step    *)
(* changes it; a call of a name that is not registered fails with          *)
(* UnknownTool and no handler runs for it.                                 *)
(***************************************************************************)
UnknownTool(r) ==
  /\ r.st = "failed"
  /\ r.result.error = JsError("McpError", "Tool " \o r.tool \o " not found")
  /\ r.args = Undefined
  /\ r.apiKey = Undefined
  /\ r.reqs = <<>>
  /\ r.steps = <<"lookup">>

C17_Registry ==
  /\ [](/\ \A j, k \in DOMAIN registry : j /= k => registry[j] /= registry[k]
        /\ proc = "running" => registry = Registrations(variant)
        /\ \A i \in DOMAIN inv :
             (inv[i].st /= "idle" /\ inv[i].tool \notin Range(registry))
               => UnknownTool(inv[i]))
  /\ [][proc /= "starting" => registry' = registry]_vars

C17_Witness ==
  \E i \in DOMAIN inv :
    /\ inv[i].tool = "get-weather"
    /\ UnknownTool(inv[i])
    /\ Len(registry) = 15
    /\ Truthy(inv[i].envAtCall)

(***************************************************************************)
(* C18.  The key is read from the environment at each call: a call that    *)
(* passes the schema and the cross-field check made while the variable is  *)
(* unset fails with MissingCredential, one made while it holds a key goes  *)
(* on to its request with that key, whatever earlier calls read; and       *)
(* main() connects whether or not the variable is set.                     *)
(***************************************************************************)
C18_KeyReadPerCall ==
  /\ [][\A i \in DOMAIN inv :
          (inv[i].st = "idle" /\ PassedPrecondition(inv'[i]))
            => /\ env = Undefined
                    => (MissingCredential(inv'[i]) /\ inv'[i].reqs = <<>>)
               /\ (env.t = "string" /\ env.s /= "")
                    => /\ inv'[i].st = "pending"
                       /\ Len(inv'[i].reqs) = 1
                       /\ inv'[i].reqs[1].authorization = "Bearer " \o env.s]_vars
  /\ []((proc = "starting" /\ registry = Registrations(variant)) => ENABLED Start)

C18_Witness ==
  /\ inv[1].tool = "search" /\ inv[2].tool = "search"
  /\ inv[1].rawArgs = inv[2].rawArgs
  /\ inv[1].envAtCall = Undefined /\ MissingCredential(inv[1])
  /\ env = Str("key-B")
  /\ inv[2].st = "pending"
  /\ inv[2].reqs[1].authorization = "Bearer key-B"

(***************************************************************************)
(* C19.  For every tool that wants a URL or inline content, and for        *)
(* get-google-reviews, a call that gives neither and is made while the key *)
(* is unset fails with PreconditionFailed, not with MissingCredential.     *)
(***************************************************************************)
C19_PreconditionBeforeCredential ==
  \A i \in DOMAIN inv :
    LET r == inv[i]
        violates == IF r.tool = "get-google-reviews"
                    THEN ~Has(r.args, "placeId") /\ ~Has(r.args, "businessName")
                    ELSE r.tool \in UrlOrInlineTools /\ NeitherSet(r.args)
    IN (HandlerRan(r) /\ violates /\ r.envAtCall = Undefined)
         => (PreconditionFailed(r) /\ ~MissingCredential(r))

(***************************************************************************)
(* C20.  A fault of the fetch call, a body read that breaks off and a      *)
(* success body that is not JSON each end the invocation in failed with    *)
(* the error that was raised, the same name and message, and no content.   *)
(***************************************************************************)
C20_FaultsPropagate ==
  \A i \in DOMAIN inv :
    LET r == inv[i]
    IN /\ r.resp.kind = "fault"
            => /\ r.st = "failed"
               /\ r.result = Throw(JsError("TypeError", r.resp.body))
       /\ r.bodyRead = "broken"
            => /\ r.st = "failed"
               /\ r.result = Throw(JsError("TypeError", "terminated"))
       /\ (/\ r.resp.kind = "response" /\ r.resp.status \in 200..299
           /\ r.bodyRead = "delivered" /\ ~IsJson(r.resp.body))
            => /\ r.st = "failed"
               /\ r.result = Throw(JsError("SyntaxError", "Unexpected token in JSON"))

C20_Witness ==
  \E i \in DOMAIN inv :
    /\ inv[i].tool = "crawl"
    /\ inv[i].resp.kind = "fault"
    /\ inv[i].resp.body = "network socket closed"
    /\ inv[i].st = "failed"
    /\ inv[i].result.error.message = "network socket closed"

(***************************************************************************)
(* C21.  For every tool, a success response whose JSON body lacks a field  *)
(* the payload is built from (transcript or language for                   *)
(* get-youtube-transcript, organic for search, text for the doc-to-text    *)
(* that returns the text as it is) ends the invocation in failed; it never *)
(* ends in succeeded with a payload built from the missing value.          *)
(***************************************************************************)
RequiredFields(v, tool) ==
  CASE tool = "get-youtube-transcript" -> {"transcript", "language"}
    [] tool = "search" -> {"organic"}
    [] tool = "doc-to-text" /\ v = "part" -> {"text"}
    [] OTHER -> {}

\* The body of the invocation's success response was parsed and lacks a
\* required field.
LacksRequired(r) ==
  /\ GotJson(r)
  /\ Upstream(r).t = "object"
  /\ \E k \in RequiredFields(variant, r.tool) : ~Has(Upstream(r), k)

C21_MalformedResponse ==
  \A i \in DOMAIN inv :
    LacksRequired(inv[i]) => (inv[i].st = "failed" /\ inv[i].result.content = <<>>)

(***************************************************************************)
(* C22.  Completion without cancellation: an invocation that has issued    *)
(* its request changes only when its fetch or its body read settles, so an *)
(* invocation whose request is never answered stays pending; and when      *)
(* every fetch and every body read does settle, every pending invocation   *)
(* reaches succeeded or failed.                                            *)
(***************************************************************************)
C22_Completion ==
  /\ \A i \in HostSlots : (inv[i].st = "pending") ~> Ended(inv[i])
  /\ [][\A i \in DOMAIN inv :
          (inv[i].st = "pending" /\ inv'[i] /= inv[i])
            => /\ inv[i].reqs /= <<>>
               /\ \/ FetchSettles(i)
                  \/ \E delivered \in BOOLEAN : BodySettles(i, delivered)]_vars

C22_Witness ==
  \E i \in DOMAIN inv :
    /\ inv[i].tool = "crawl"
    /\ inv[i].st = "succeeded"
    /\ inv[i].steps = <<"lookup", "validate", "credential", "request", "status", "parse",
                        "project">>
    /\ inv[i].bodyRead = "delivered"

(***************************************************************************)
(* C23.  As stated: for every tool, an invocation made while               *)
(* DUMPLING_API_KEY is the empty string fails with the MissingCredential   *)
(* error and issues no outbound request.                                   *)
(***************************************************************************)
C23_EmptyKeyAlwaysMissingCredential ==
  \A i \in DOMAIN inv :
    (HandlerRan(inv[i]) /\ inv[i].envAtCall = Str(""))
      => (MissingCredential(inv[i]) /\ inv[i].reqs = <<>>)

(***************************************************************************)
(* C23, amended: an invocation made while the key is the empty string      *)
(* fails with the MissingCredential error when its arguments pass the      *)
(* handler's cross-field check, and with PreconditionFailed when they fail *)
(* it; either way it issues no outbound request, and no request of any     *)
(* invocation carries an empty bearer token.                               *)
(***************************************************************************)
C23_EmptyKeyIsUnset ==
  \A i \in DOMAIN inv :
    LET r == inv[i]
    IN /\ (PassedPrecondition(r) /\ r.envAtCall = Str("")) => MissingCredential(r)
       /\ (HandlerRan(r) /\ ~PassedPrecondition(r) /\ r.envAtCall = Str(""))
            => PreconditionFailed(r)
       /\ (r.st /= "idle" /\ r.envAtCall = Str("")) => r.reqs = <<>>
       /\ \A j \in 1..Len(r.reqs) :
            /\ r.reqs[j].authorization /= "Bearer "
            /\ Len(r.reqs[j].authorization) > Len("Bearer ")

C23_Witness ==
  \E i \in DOMAIN inv :
    /\ inv[i].tool = "get-youtube-transcript"
    /\ HandlerRan(inv[i])
    /\ inv[i].envAtCall = Str("")
    /\ inv[i].apiKey = Str("")
    /\ MissingCredential(inv[i])
    /\ inv[i].reqs = <<>>

(***************************************************************************)
(* C24.  The cross-field checks test emptiness, not presence: for          *)
(* extract-document, extract-video, doc-to-text and get-google-reviews, a  *)
(* call whose arguments pass the schema and give the inline content (or    *)
(* the identifier) only as an empty string, with the alternative absent,   *)
(* fails with the precondition error and issues no outbound request.       *)
(***************************************************************************)
\* Of the two alternatives a and b of object o, one is the empty string and
\* the other is absent.
OnlyEmpty(o, a, b) ==
  \/ Get(o, a) = Str("") /\ ~Has(o, b)
  \/ Get(o, b) = Str("") /\ ~Has(o, a)

\* The arguments give the inline content or the identifier only as an empty
\* string: for the extract-document that takes a list of files, in one of
\* its elements.
EmptyInline(tool, args) ==
  CASE tool = "get-google-reviews" -> OnlyEmpty(args, "placeId", "businessName")
    [] tool \in {"extract-document", "extract-video", "doc-to-text"} ->
         IF Has(args, "files")
         THEN \E j \in 1..Len(Get(args, "files").a) :
                /\ Get(Get(args, "files").a[j], "content") = Str("")
                /\ ~Has(Get(args, "files").a[j], "url")
         ELSE \E b \in {"base64", "file"} : Get(args, b) = Str("") /\ ~Has(args, "url")
    [] OTHER -> FALSE

C24_EmptinessNotPresence ==
  \A i \in DOMAIN inv :
    (HandlerRan(inv[i]) /\ EmptyInline(inv[i].tool, inv[i].args))
      => (PreconditionFailed(inv[i]) /\ inv[i].reqs = <<>>)

(***************************************************************************)
(* C25.  extract-image fails with "Each image must have either url or      *)
(* base64" and issues no request when any one element of images has        *)
(* neither, whatever the other elements are; with an empty list of images  *)
(* the check passes and, when the key is set, exactly one request is       *)
(* issued.                                                                 *)
(***************************************************************************)
C25_EachImage ==
  \A i \in DOMAIN inv :
    LET r == inv[i]
        images == Get(r.args, "images").a
    IN (HandlerRan(r) /\ r.tool = "extract-image") =>
         /\ (\E j \in 1..Len(images) : ~Has(images[j], "url") /\ ~Has(images[j], "base64"))
              => /\ r.st = "failed"
                 /\ r.result.error =
                      JsError("Error", "Each image must have either url or base64")
                 /\ r.reqs = <<>>
                 /\ r.apiKey = Undefined
         /\ images = <<>>
              => /\ ~PreconditionFailed(r)
                 /\ "credential" \in Range(r.steps)
                 /\ Truthy(r.envAtCall)
                      => (Len(r.reqs) = 1 /\ Contains(r.reqs[1].body, "\"images\":[]"))

C25_Witness ==
  \E i \in DOMAIN inv :
    /\ inv[i].tool = "extract-image"
    /\ Get(inv[i].args, "images") = Arr(<<Obj(<< <<"url", AUrl>> >>), Obj(<<>>)>>)
    /\ Truthy(inv[i].envAtCall)
    /\ PreconditionFailed(inv[i])
    /\ inv[i].reqs = <<>>

(***************************************************************************)
(* C26.  The bearer token of an invocation's request is the key the        *)
(* handler read at its credential check: a change of the environment       *)
(* variable changes no invocation that exists, the request an invocation   *)
(* has issued and the key it holds stay as they are while it exists, its   *)
(* outcome is the one computed from the key at its call, and the new value *)
(* is the one read by the calls made after the change.                     *)
(***************************************************************************)
C26_KeyFixedAtCheck ==
  /\ [](\A i \in DOMAIN inv :
          inv[i].reqs /= <<>>
            => /\ inv[i].apiKey = inv[i].envAtCall
               /\ inv[i].reqs[1].authorization = "Bearer " \o ToJsString(inv[i].envAtCall))
  /\ [][\A i \in DOMAIN inv :
          /\ env' /= env => inv'[i] = inv[i]
          /\ (inv[i].reqs /= <<>> /\ inv'[i] /= IdleInv)
               => (inv'[i].reqs = inv[i].reqs /\ inv'[i].apiKey = inv[i].apiKey)
          /\ (inv[i].st = "pending" /\ Ended(inv'[i])) => inv'[i] = RunAlone(inv'[i])
          /\ (inv[i].st = "idle" /\ "credential" \in Range(inv'[i].steps))
               => inv'[i].apiKey = env]_vars

C26_Witness ==
  /\ inv[1].tool = "get-google-reviews"
  /\ inv[1].st = "succeeded"
  /\ inv[1].reqs[1].authorization = "Bearer key-A"
  /\ env = Undefined
  /\ inv[2].tool = "get-google-reviews"
  /\ inv[2].envAtCall = Undefined
  /\ MissingCredential(inv[2])

(***************************************************************************)
(* C27.  Everything the process writes to standard output is a message of  *)
(* the host's protocol: in no reachable state, the one right after the     *)
(* transport is connected included, has the process written a line that is *)
(* not one.                                                                *)
(***************************************************************************)
C27_StdoutIsProtocol == \A chunk \in stdout : chunk.kind = "frame"

====
